---- MODULE Spec2Model ----
(***************************************************************************)
(* Release-asset synchronisation of jp_idwr_db (data_manager.py):          *)
(* ensure_data resolves a data version, fetches a manifest (current        *)
(* schema, legacy schema on HTTP 404), downloads and verifies the dataset  *)
(* files into <cache_root>/data/<version> and writes the completion        *)
(* marker ".complete".                                                      *)
(*                                                                         *)
(* Strings the code inspects by prefix or suffix (versions, base URLs) are *)
(* sequences of tokens; file names and manifest keys are plain strings.    *)
(* A file's bytes are a tagged record; a remote release is a function from *)
(* file name to HTTP response.                                             *)
(***************************************************************************)
EXTENDS Integers, Sequences, FiniteSets, TLC

VARIABLES fs, env, last, marked, calls, procs

vars == <<fs, env, last, marked, calls, procs>>

----------------------------------------------------------------------------
(* Module constants, data_manager.py lines 19-32 and 213.                  *)

PACKAGE_NAME == "jp_idwr_db"
DEFAULT_REPO == "AlFontal/jp-idwr-db"
DEFAULT_BASE_URL == <<"https://github.com/AlFontal/jp-idwr-db/releases/download">>
ARCHIVE_NAME == "jp_idwr_db-parquet.zip"
MANIFEST_NAME == "manifest.json"
LEGACY_MANIFEST_NAME == "jp_idwr_db-manifest.json"
EXPECTED_DATASETS ==
    { "sex_prefecture.parquet", "place_prefecture.parquet", "bullet.parquet",
      "sentinel.parquet", "unified.parquet", "prefecture_en.parquet" }
MARKER_NAME == ".complete"
MARKER_TEXT == "ok\n"

(* Python's ordering of the strings that the code sorts (file names and   *)
(* manifest keys), ascending by code point.                                *)
StrOrder ==
    << ".complete", "archive", "archive_sha256", "assets_base_url",
       "bullet.parquet", "data_version", "dataset_id", "extra.parquet",
       "file", "files", "format", "homepage", "jp_idwr_db-manifest.json",
       "jp_idwr_db-parquet.zip", "license", "manifest.json", "name",
       "place_prefecture.parquet", "prefecture_en.parquet", "published_at",
       "release_tag", "sentinel.parquet", "sex_prefecture.parquet", "sha256",
       "size_bytes", "spec_version", "tables", "unified.parquet" >>

sorted(S) == SelectSeq(StrOrder, LAMBDA n : n \in S)

(* The expected datasets in the order of the set's own enumeration, here   *)
(* the reverse of the sorted one.                                          *)
SortedExpected_unsorted ==
    [ i \in 1..Cardinality(EXPECTED_DATASETS) |->
        sorted(EXPECTED_DATASETS)[Cardinality(EXPECTED_DATASETS) + 1 - i] ]

SortedExpected == sorted(EXPECTED_DATASETS)

Range(s) == { s[i] : i \in 1..Len(s) }

----------------------------------------------------------------------------
(* File contents, digests and sizes.                                       *)

Data(b) == [kind |-> "data", bytes |-> b]
Json(v) == [kind |-> "json", value |-> v]
Zip(m) == [kind |-> "zip", members |-> m]
Text(s) == [kind |-> "text", value |-> s]
Partial(c) == [kind |-> "partial", of |-> c]

(* hashlib.sha256 over the file's bytes: equal digests only for equal      *)
(* contents.                                                               *)
_sha256(content) == <<"sha256", content>>

(* Path.stat().st_size of a dataset file.                                  *)
st_size(content) == IF content.kind = "data" THEN Len(content.bytes) ELSE 0

EmptyDir == [n \in {} |-> Text("")]

exists(f, dir, name) == dir \in DOMAIN f /\ name \in DOMAIN f[dir]

mkdir(f, dir) == IF dir \in DOMAIN f THEN f ELSE (dir :> EmptyDir) @@ f

(* A removal that leaves the directory as it is.                           *)
rmtree_keeps_files(f, dir) == f

rmtree(f, dir) == [d \in DOMAIN f \ {dir} |-> f[d]]

write(f, dir, name, content) ==
    [f EXCEPT ![dir] = (name :> content) @@ @]

(* dir / name, the path a name taken from a manifest is joined into: a     *)
(* plain file name stays in dir, and the one name of the model that starts *)
(* with "../" leads into the sibling directory it names.                   *)
ESCAPING_NAME == "../v1/bullet.parquet"

join(dir, name) ==
    IF name = ESCAPING_NAME
       THEN [dir |-> <<dir[1], dir[2], <<"v1">>>>, name |-> "bullet.parquet"]
    ELSE [dir |-> dir, name |-> name]

read(f, dir, name) == f[join(dir, name).dir][join(dir, name).name]

----------------------------------------------------------------------------
(* Errors and the running context of one call.                             *)

Err(type, msg, names, status) ==
    [type |-> type, msg |-> msg, names |-> names, status |-> status]

NoErr == Err("none", "", <<>>, 0)

Ctx(f) ==
    [ fs |-> f, reqs |-> <<>>, err |-> NoErr, shaOk |-> {}, sizeOk |-> {},
      wrote |-> {}, stderr |-> <<>>, loaded |-> <<>> ]

ok(c) == c.err = NoErr

raise(c, e) == [c EXCEPT !.err = e]

(* Statement sequencing: With evaluates a context once and continues with  *)
(* it; Then does the same but passes a context that holds a pending        *)
(* exception through unchanged (the exception propagates).                 *)
With(c, F(_)) == CHOOSE y \in { F(x) : x \in {c} } : TRUE

Then(c, F(_)) == CHOOSE y \in { IF ok(x) THEN F(x) ELSE x : x \in {c} } : TRUE

----------------------------------------------------------------------------
(* Environment: get_cache_dir, _resolve_data_version, _resolve_base_url.   *)

get_cache_dir(e) ==
    IF e.JPINFECT_CACHE_DIR # <<>> THEN e.JPINFECT_CACHE_DIR
    ELSE <<"user_cache_dir", PACKAGE_NAME>>

startswith(s, tok) == Len(s) > 0 /\ s[1] = tok

(* A resolution that lets the environment override win over the argument. *)
_resolve_data_version_env_first(e, version) ==
    IF e.JPINFECT_DATA_VERSION # <<>> THEN e.JPINFECT_DATA_VERSION
    ELSE IF version # <<>> THEN version
    ELSE LET pkg_version == IF e.installed THEN e.package_version
                            ELSE <<"0.0.0">>
         IN IF startswith(pkg_version, "v") THEN pkg_version
            ELSE <<"v">> \o pkg_version

(* _resolve_data_version: <<>> stands for a version argument or variable   *)
(* the code finds falsy (None, unset or empty).                            *)
_resolve_data_version(e, version) ==
    IF version # <<>> THEN version
    ELSE IF e.JPINFECT_DATA_VERSION # <<>> THEN e.JPINFECT_DATA_VERSION
    ELSE LET pkg_version == IF e.installed THEN e.package_version
                            ELSE <<"0.0.0">>
         IN IF startswith(pkg_version, "v") THEN pkg_version
            ELSE <<"v">> \o pkg_version

RECURSIVE rstrip(_, _)
rstrip(s, tok) ==
    IF Len(s) > 0 /\ s[Len(s)] = tok THEN rstrip(SubSeq(s, 1, Len(s) - 1), tok)
    ELSE s

(* A resolution that returns the override as it is set.                    *)
_resolve_base_url_unstripped(e, version) ==
    IF e.JPINFECT_DATA_BASE_URL # <<>> THEN e.JPINFECT_DATA_BASE_URL
    ELSE DEFAULT_BASE_URL \o <<"/">> \o version

_resolve_base_url(e, version) ==
    IF e.JPINFECT_DATA_BASE_URL # <<>> THEN rstrip(e.JPINFECT_DATA_BASE_URL, "/")
    ELSE DEFAULT_BASE_URL \o <<"/">> \o version

Url(base_url, filename) == [base |-> base_url, file |-> filename]

----------------------------------------------------------------------------
(* The remote side of one call: file name -> HTTP response.  status 0 is a *)
(* transport failure before any response; cut is a stream that breaks      *)
(* after the destination file was opened.                                  *)

Response(status, body, cut) == [status |-> status, body |-> body, cut |-> cut]

OK(body) == Response(200, body, FALSE)

Failed(status) == Response(status, Text(""), FALSE)

Respond(r, url) == IF url.file \in DOMAIN r THEN r[url.file] ELSE Failed(404)

(* A download that asks a second time when the first answer is an error   *)
(* status.                                                                 *)
_download_file_retrying(c, r, url, dir, name) ==
    Then(c, LAMBDA c0 :
        LET resp == Respond(r, url)
            dest == join(dir, name)
            c1 == [c0 EXCEPT !.fs = mkdir(@, dest.dir), !.reqs = Append(@, url)]
            c2 == [c1 EXCEPT !.reqs = Append(@, url)]
        IN  IF resp.status = 0
               THEN raise(c1, Err("ConnectError", "", <<>>, 0))
            ELSE IF resp.status >= 400
               THEN raise(c2, Err("HTTPStatusError", "", <<>>, resp.status))
            ELSE IF resp.cut
               THEN raise([c1 EXCEPT
                             !.fs = write(@, dest.dir, dest.name, Partial(resp.body)),
                             !.wrote = @ \cup {name}],
                          Err("ReadError", "", <<>>, 0))
            ELSE [c1 EXCEPT !.fs = write(@, dest.dir, dest.name, resp.body),
                            !.wrote = @ \cup {name}])

(* _download_file: mkdir of the parent, GET, raise_for_status, then the    *)
(* body is streamed into the destination opened with "wb".                 *)
_download_file(c, r, url, dir, name) ==
    Then(c, LAMBDA c0 :
        LET resp == Respond(r, url)
            dest == join(dir, name)
            c1 == [c0 EXCEPT !.fs = mkdir(@, dest.dir), !.reqs = Append(@, url)]
        IN  IF resp.status = 0
               THEN raise(c1, Err("ConnectError", "", <<>>, 0))
            ELSE IF resp.status >= 400
               THEN raise(c1, Err("HTTPStatusError", "", <<>>, resp.status))
            ELSE IF resp.cut
               THEN raise([c1 EXCEPT
                             !.fs = write(@, dest.dir, dest.name, Partial(resp.body)),
                             !.wrote = @ \cup {name}],
                          Err("ReadError", "", <<>>, 0))
            ELSE [c1 EXCEPT !.fs = write(@, dest.dir, dest.name, resp.body),
                            !.wrote = @ \cup {name}])

----------------------------------------------------------------------------
(* Decoded JSON.  Values whose type the code tests carry a tag t; a        *)
(* manifest and a file_info are functions from key to value.               *)

(* A JSON number that is not negative: its whole part and its first        *)
(* decimal (2 is Number(2, 0), 2.5 is Number(2, 5)).  int() of it drops    *)
(* the decimals, as Python's int does for a float.                         *)
Number(whole, tenths) == [t |-> "num", whole |-> whole, tenths |-> tenths]

int(v) == v.whole

List(items) == [t |-> "list", v |-> items]
Dict(order, f) == [t |-> "dict", order |-> order, v |-> f]
Scalar(x) == [t |-> "str", s |-> x]

(* A legacy validator that accepts an empty files object.                  *)
_verify_legacy_manifest_allows_empty(c, manifest) ==
    Then(c, LAMBDA c0 :
        LET required == {"archive", "archive_sha256", "files"}
            missing == required \ DOMAIN manifest
        IN  IF missing # {}
               THEN raise(c0, Err("ValueError",
                                  "Invalid legacy manifest; missing keys",
                                  sorted(missing), 0))
            ELSE IF manifest["files"].t # "dict"
               THEN raise(c0, Err("ValueError",
                       "Invalid legacy manifest; 'files' must be a non-empty object",
                       <<>>, 0))
            ELSE c0)

(* _verify_legacy_manifest, in the running context.                        *)
_verify_legacy_manifest(c, manifest) ==
    Then(c, LAMBDA c0 :
        LET required == {"archive", "archive_sha256", "files"}
            missing == required \ DOMAIN manifest
        IN  IF missing # {}
               THEN raise(c0, Err("ValueError",
                                  "Invalid legacy manifest; missing keys",
                                  sorted(missing), 0))
            ELSE LET files == manifest["files"]
                 IN  IF files.t # "dict" \/ Len(files.order) = 0
                        THEN raise(c0, Err("ValueError",
                                "Invalid legacy manifest; 'files' must be a non-empty object",
                                <<>>, 0))
                     ELSE c0)

(* The first table entry, in list order, that _verify_manifest rejects;    *)
(* 0 when every entry passes.                                              *)
RequiredTableKeys == {"name", "file", "format", "size_bytes", "sha256"}

BadTable(table) ==
    table.t # "dict" \/ RequiredTableKeys \ DOMAIN table.v # {}

FirstBadTable(tables) ==
    LET bad == { i \in 1..Len(tables) : BadTable(tables[i]) }
    IN  IF bad = {} THEN 0 ELSE CHOOSE i \in bad : \A j \in bad : i <= j

(* A validator whose table-entry rule forgets size_bytes.                  *)
_verify_manifest_forgets_size(c, manifest) ==
    Then(c, LAMBDA c0 :
        LET required == { "spec_version", "dataset_id", "data_version",
                          "release_tag", "published_at", "license",
                          "homepage", "assets_base_url", "tables" }
            missing == required \ DOMAIN manifest
            required_table == {"name", "file", "format", "sha256"}
            bad(tables) == { i \in 1..Len(tables) :
                               \/ tables[i].t # "dict"
                               \/ required_table \ DOMAIN tables[i].v # {} }
        IN  IF missing # {}
               THEN raise(c0, Err("ValueError", "Invalid manifest; missing keys",
                                  sorted(missing), 0))
            ELSE LET tables == manifest["tables"]
                 IN  IF tables.t # "list" \/ Len(tables.v) = 0
                        THEN raise(c0, Err("ValueError",
                                "Invalid manifest; 'tables' must be a non-empty list",
                                <<>>, 0))
                     ELSE IF bad(tables.v) = {} THEN c0
                     ELSE LET i == CHOOSE k \in bad(tables.v) :
                                       \A j \in bad(tables.v) : k <= j
                          IN  IF tables.v[i].t # "dict"
                                 THEN raise(c0, Err("ValueError",
                                        "Invalid manifest; each table entry must be an object",
                                        <<>>, 0))
                              ELSE raise(c0, Err("ValueError",
                                        "Invalid manifest table entry; missing keys",
                                        sorted(required_table \ DOMAIN tables.v[i].v), 0)))

_verify_manifest(c, manifest) ==
    Then(c, LAMBDA c0 :
        LET required == { "spec_version", "dataset_id", "data_version",
                          "release_tag", "published_at", "license",
                          "homepage", "assets_base_url", "tables" }
            missing == required \ DOMAIN manifest
        IN  IF missing # {}
               THEN raise(c0, Err("ValueError", "Invalid manifest; missing keys",
                                  sorted(missing), 0))
            ELSE LET tables == manifest["tables"]
                 IN  IF tables.t # "list" \/ Len(tables.v) = 0
                        THEN raise(c0, Err("ValueError",
                                "Invalid manifest; 'tables' must be a non-empty list",
                                <<>>, 0))
                     ELSE LET i == FirstBadTable(tables.v)
                          IN  IF i = 0 THEN c0
                              ELSE IF tables.v[i].t # "dict"
                                 THEN raise(c0, Err("ValueError",
                                        "Invalid manifest; each table entry must be an object",
                                        <<>>, 0))
                              ELSE raise(c0, Err("ValueError",
                                        "Invalid manifest table entry; missing keys",
                                        sorted(RequiredTableKeys \ DOMAIN tables.v[i].v), 0)))

(* What _download_manifest hands back: the context, the manifest's path    *)
(* and the is_legacy flag.                                                 *)
Fetched(c, path, is_legacy) == [c |-> c, path |-> path, is_legacy |-> is_legacy]

(* A fetcher that falls back to the legacy manifest on any HTTP status     *)
(* error, not only on 404.                                                 *)
_download_manifest_any_status(c, r, base_url, dest_dir) ==
    With(_download_file(c, r, Url(base_url, MANIFEST_NAME), dest_dir, MANIFEST_NAME),
         LAMBDA c1 :
            IF ok(c1) THEN Fetched(c1, MANIFEST_NAME, FALSE)
            ELSE IF c1.err.type = "HTTPStatusError"
               THEN Fetched(_download_file([c1 EXCEPT !.err = NoErr], r,
                                           Url(base_url, LEGACY_MANIFEST_NAME),
                                           dest_dir, LEGACY_MANIFEST_NAME),
                            LEGACY_MANIFEST_NAME, TRUE)
            ELSE Fetched(c1, MANIFEST_NAME, FALSE))

(* _download_manifest: the current manifest first; the legacy one only     *)
(* after an HTTPStatusError whose status is 404.                           *)
_download_manifest(c, r, base_url, dest_dir) ==
    With(_download_file(c, r, Url(base_url, MANIFEST_NAME), dest_dir, MANIFEST_NAME),
         LAMBDA c1 :
            IF ok(c1) THEN Fetched(c1, MANIFEST_NAME, FALSE)
            ELSE IF c1.err.type = "HTTPStatusError" /\ c1.err.status = 404
               THEN Fetched(_download_file([c1 EXCEPT !.err = NoErr], r,
                                           Url(base_url, LEGACY_MANIFEST_NAME),
                                           dest_dir, LEGACY_MANIFEST_NAME),
                            LEGACY_MANIFEST_NAME, TRUE)
            ELSE Fetched(c1, MANIFEST_NAME, FALSE))

(* An extraction that leaves out the archive's last member.                *)
_extract_archive_skips_member(c, data_dir, archive_name) ==
    Then(c, LAMBDA c0 :
        LET archive == read(c0.fs, data_dir, archive_name)
            last_member == sorted(DOMAIN archive.members)[Cardinality(DOMAIN archive.members)]
            extracted == [n \in DOMAIN archive.members \ {last_member} |-> archive.members[n]]
        IN  IF archive.kind # "zip"
               THEN raise(c0, Err("BadZipFile", "", <<>>, 0))
            ELSE [c0 EXCEPT !.fs = [@ EXCEPT ![data_dir] = extracted @@ @],
                            !.wrote = @ \cup DOMAIN extracted])

(* _extract_archive: zipfile.extractall writes every member under its      *)
(* own name, over whatever is there.                                       *)
_extract_archive(c, data_dir, archive_name) ==
    Then(c, LAMBDA c0 :
        LET archive == read(c0.fs, data_dir, archive_name)
        IN  IF archive.kind # "zip"
               THEN raise(c0, Err("BadZipFile", "", <<>>, 0))
            ELSE [c0 EXCEPT
                    !.fs = [@ EXCEPT ![data_dir] = archive.members @@ @],
                    !.wrote = @ \cup DOMAIN archive.members])

(* _download_and_verify_file: download, then digest, then size.            *)
_download_and_verify_file(c, r, base_url, dest_dir, filename, expected) ==
    Then(_download_file(c, r, Url(base_url, filename), dest_dir, filename),
         LAMBDA c1 :
            LET content == c1.fs[dest_dir][filename]
            IN  IF _sha256(content) # expected["sha256"]
                   THEN raise(c1, Err("ValueError", "Checksum mismatch", <<filename>>, 0))
                ELSE IF st_size(content) # int(expected["size_bytes"])
                   THEN raise([c1 EXCEPT !.shaOk = @ \cup {filename}],
                              Err("ValueError", "Size mismatch", <<filename>>, 0))
                ELSE [c1 EXCEPT !.shaOk = @ \cup {filename},
                                !.sizeOk = @ \cup {filename}])

----------------------------------------------------------------------------
(* The two synchronisers.                                                  *)

(* The loop of _sync_from_legacy_manifest over files.items(), from the     *)
(* i-th entry on, in the order of the JSON object.                         *)
RECURSIVE VerifyExtracted(_, _, _, _)

(* A loop that also compares the extracted file's size with size_bytes.    *)
VerifyExtracted_checks_size(c, data_dir, files, i) ==
    Then(c, LAMBDA c0 :
        IF i > Len(files.order) THEN c0
        ELSE LET rel_name == files.order[i]
                 file_info == files.v[rel_name]
             IN  IF ~exists(c0.fs, data_dir, rel_name)
                    THEN raise(c0, Err("ValueError", "Missing extracted data file",
                                       <<rel_name>>, 0))
                 ELSE IF "sha256" \notin DOMAIN file_info
                    THEN raise(c0, Err("KeyError", "sha256", <<rel_name>>, 0))
                 ELSE IF _sha256(c0.fs[data_dir][rel_name]) # file_info["sha256"]
                    THEN raise(c0, Err("ValueError", "Checksum mismatch", <<rel_name>>, 0))
                 ELSE IF st_size(c0.fs[data_dir][rel_name]) # int(file_info["size_bytes"])
                    THEN raise(c0, Err("ValueError", "Size mismatch", <<rel_name>>, 0))
                 ELSE VerifyExtracted([c0 EXCEPT !.shaOk = @ \cup {rel_name}],
                                      data_dir, files, i + 1))

VerifyExtracted(c, data_dir, files, i) ==
    Then(c, LAMBDA c0 :
        IF i > Len(files.order) THEN c0
        ELSE LET rel_name == files.order[i]
                 file_info == files.v[rel_name]
             IN  IF ~exists(c0.fs, data_dir, rel_name)
                    THEN raise(c0, Err("ValueError", "Missing extracted data file",
                                       <<rel_name>>, 0))
                 ELSE IF "sha256" \notin DOMAIN file_info
                    THEN raise(c0, Err("KeyError", "sha256", <<rel_name>>, 0))
                 ELSE IF _sha256(c0.fs[data_dir][rel_name]) # file_info["sha256"]
                    THEN raise(c0, Err("ValueError", "Checksum mismatch", <<rel_name>>, 0))
                 ELSE VerifyExtracted([c0 EXCEPT !.shaOk = @ \cup {rel_name}],
                                      data_dir, files, i + 1))

(* A legacy sync that extracts the archive before it compares the digest.  *)
_sync_from_legacy_manifest_extracts_first(c, r, base_url, data_dir, manifest) ==
    Then(_verify_legacy_manifest(c, manifest), LAMBDA c1 :
        LET archive_name == manifest["archive"]
        IN  Then(_download_file(c1, r, Url(base_url, archive_name), data_dir, archive_name),
                 LAMBDA c2 :
                    Then(_extract_archive(c2, data_dir, archive_name), LAMBDA c3 :
                        IF _sha256(read(c2.fs, data_dir, archive_name)) # manifest["archive_sha256"]
                           THEN raise(c3, Err("ValueError", "Archive checksum mismatch",
                                              <<>>, 0))
                        ELSE VerifyExtracted(c3, data_dir, manifest["files"], 1))))

_sync_from_legacy_manifest(c, r, base_url, data_dir, manifest) ==
    Then(_verify_legacy_manifest(c, manifest), LAMBDA c1 :
        LET archive_name == manifest["archive"]
        IN  Then(_download_file(c1, r, Url(base_url, archive_name), data_dir, archive_name),
                 LAMBDA c2 :
                    IF _sha256(read(c2.fs, data_dir, archive_name)) # manifest["archive_sha256"]
                       THEN raise(c2, Err("ValueError", "Archive checksum mismatch", <<>>, 0))
                    ELSE VerifyExtracted(_extract_archive(c2, data_dir, archive_name),
                                         data_dir, manifest["files"], 1)))

(* An index of the table entries that does not look at their format.      *)
parquet_entries_any_format(table_entries) ==
    LET idx(f) == { i \in 1..Len(table_entries) : table_entries[i].v["file"] = f }
        names == { table_entries[i].v["file"] : i \in 1..Len(table_entries) }
    IN  [ f \in names |->
            table_entries[CHOOSE i \in idx(f) : \A j \in idx(f) : j <= i].v ]

(* The dict comprehension of _sync_from_manifest: parquet entries by file  *)
(* name, a later entry replacing an earlier one of the same file.          *)
parquet_entries(table_entries) ==
    LET idx(f) == { i \in 1..Len(table_entries) :
                      /\ table_entries[i].v["format"] = "parquet"
                      /\ table_entries[i].v["file"] = f }
        names == { table_entries[i].v["file"] :
                     i \in { j \in 1..Len(table_entries) :
                               table_entries[j].v["format"] = "parquet" } }
    IN  [ f \in names |->
            table_entries[CHOOSE i \in idx(f) : \A j \in idx(f) : j <= i].v ]

(* A download loop that stops before the last expected dataset.            *)
DownloadExpected_but_last(c, r, base_url, data_dir, entries, i) ==
    Then(c, LAMBDA c0 :
        IF i >= Len(SortedExpected) THEN c0
        ELSE _download_and_verify_file(c0, r, base_url, data_dir, SortedExpected[i],
                                       entries[SortedExpected[i]]))

(* The download loop over sorted(EXPECTED_DATASETS), from position i on.   *)
RECURSIVE DownloadExpected(_, _, _, _, _, _)
DownloadExpected(c, r, base_url, data_dir, entries, i) ==
    Then(c, LAMBDA c0 :
        IF i > Len(SortedExpected) THEN c0
        ELSE DownloadExpected(
                 _download_and_verify_file(c0, r, base_url, data_dir, SortedExpected[i],
                                           entries[SortedExpected[i]]),
                 r, base_url, data_dir, entries, i + 1))

_sync_from_manifest(c, r, base_url, data_dir, manifest) ==
    Then(_verify_manifest(c, manifest), LAMBDA c1 :
        With(parquet_entries(manifest["tables"].v), LAMBDA entries :
            LET missing_listed == EXPECTED_DATASETS \ DOMAIN entries
            IN  IF missing_listed # {}
                   THEN raise(c1, Err("ValueError",
                                      "Missing required parquet datasets in manifest",
                                      sorted(missing_listed), 0))
                ELSE DownloadExpected(c1, r, base_url, data_dir, entries, 1)))

----------------------------------------------------------------------------
(* ensure_data on file system f with environment e against remote r.       *)
(* The result carries the file system it leaves, the value returned or the *)
(* error raised, and what the call did on the way.                         *)

Outcome(c, data_dir, fast, is_legacy, deleted) ==
    With(c, LAMBDA x :
        [ fs |-> x.fs, kind |-> IF ok(x) THEN "return" ELSE "raise",
          path |-> data_dir, err |-> x.err, reqs |-> x.reqs, stderr |-> x.stderr,
          shaOk |-> x.shaOk, sizeOk |-> x.sizeOk, wrote |-> x.wrote,
          loaded |-> x.loaded,
          fast |-> fast, is_legacy |-> is_legacy, deleted |-> deleted ])

(* A sync that ends without writing the marker.                            *)
write_marker_skipped(c, data_dir) == c

(* Lines 243-244: marker.write_text and the "ready" notice.                *)
write_marker(c, data_dir) ==
    [c EXCEPT !.fs = write(@, data_dir, MARKER_NAME, Text(MARKER_TEXT)),
              !.wrote = @ \cup {MARKER_NAME},
              !.stderr = Append(@, "Data cache ready.")]

(* A call that never trusts the marker.                                    *)
cache_ready_never(f, data_dir, force) == FALSE

(* Line 215: the test of the fast path.                                    *)
cache_ready(f, data_dir, force) == exists(f, data_dir, MARKER_NAME) /\ ~force

(* A load that reads the current manifest's file whenever the directory    *)
(* has one, whatever the fetcher returned.                                 *)
LoadAndSync_any_manifest_file(dm, r, base_url, data_dir) ==
    Then(dm.c, LAMBDA c0 :
        LET path == IF exists(c0.fs, data_dir, MANIFEST_NAME) THEN MANIFEST_NAME
                    ELSE dm.path
            body == c0.fs[data_dir][path]
            c1 == [c0 EXCEPT !.loaded = <<[name |-> path, body |-> body]>>]
        IN  IF body.kind # "json" THEN raise(c1, Err("JSONDecodeError", "", <<>>, 0))
            ELSE IF dm.is_legacy /\ path = dm.path
               THEN _sync_from_legacy_manifest(c1, r, base_url, data_dir, body.value)
            ELSE _sync_from_manifest(c1, r, base_url, data_dir, body.value))

(* Lines 233-237: the manifest file is read and parsed (loaded records     *)
(* which file, with what content), and the sync it selects runs.           *)
LoadAndSync(dm, r, base_url, data_dir) ==
    Then(dm.c, LAMBDA c0 :
        LET body == c0.fs[data_dir][dm.path]
            c1 == [c0 EXCEPT !.loaded = <<[name |-> dm.path, body |-> body]>>]
        IN  IF body.kind # "json" THEN raise(c1, Err("JSONDecodeError", "", <<>>, 0))
            ELSE IF dm.is_legacy
               THEN _sync_from_legacy_manifest(c1, r, base_url, data_dir, body.value)
            ELSE _sync_from_manifest(c1, r, base_url, data_dir, body.value))

(* A marker written in a finally clause, whether or not the sync raised.   *)
CheckAndMark_in_finally(c, data_dir) ==
    With(c, LAMBDA c2 :
        [c2 EXCEPT !.fs = write(@, data_dir, MARKER_NAME, Text(MARKER_TEXT)),
                   !.wrote = @ \cup {MARKER_NAME}])

(* Lines 239-245: the final presence check and the marker.                 *)
CheckAndMark(c, data_dir) ==
    Then(c, LAMBDA c2 :
        LET missing_expected ==
                { name \in EXPECTED_DATASETS : ~exists(c2.fs, data_dir, name) }
        IN  IF missing_expected # {}
               THEN raise(c2, Err("ValueError", "Missing required datasets in cache",
                                  sorted(missing_expected), 0))
            ELSE write_marker(c2, data_dir))

(* Lines 231-245: manifest fetch, parse, sync, presence check, marker.     *)
SyncAndMark(c, e, resolved, data_dir, r) ==
    LET base_url == _resolve_base_url(e, resolved)
    IN  With(_download_manifest(c, r, base_url, data_dir), LAMBDA dm :
            [ c |-> CheckAndMark(LoadAndSync(dm, r, base_url, data_dir), data_dir),
              is_legacy |-> dm.is_legacy ])

ensure_data(f, e, version, force, r) ==
    LET resolved == _resolve_data_version(e, version)
        data_dir == <<get_cache_dir(e), "data", resolved>>
    IN  IF cache_ready(f, data_dir, force)
           THEN Outcome(Ctx(f), data_dir, TRUE, FALSE, FALSE)
        ELSE LET deleted == force /\ data_dir \in DOMAIN f
                 f1 == IF deleted THEN rmtree(f, data_dir) ELSE f
                 c0 == [Ctx(mkdir(f1, data_dir)) EXCEPT
                          !.stderr = << IF force THEN "Refreshing" ELSE "Building",
                                        "This happens on first use" >>]
             IN  With(SyncAndMark(c0, e, resolved, data_dir, r), LAMBDA s :
                     Outcome(s.c, data_dir, FALSE, s.is_legacy, deleted))

----------------------------------------------------------------------------
(* Remote releases offered to a call.  Generation g of dataset f is a      *)
(* two-byte file; a release is built as tests/test_data_manager.py builds  *)
(* its fixtures, and the faulty releases change one thing in a release of  *)
(* generation 1.                                                           *)

MaxGen == 2
MaxCalls == 2

Position(f) == CHOOSE i \in 1..Len(StrOrder) : StrOrder[i] = f

Content(f, g) == Data(<<Position(f), g>>)

Tampered(f) == Data(<<Position(f), 0, 0>>)

_make_manifest_entry(f, g) ==
    Dict(<<>>, [ name |-> f, file |-> f, format |-> "parquet",
                 size_bytes |-> Number(st_size(Content(f, g)), 0),
                 sha256 |-> _sha256(Content(f, g)) ])

EntryWith(f, g, key, value) ==
    LET e == _make_manifest_entry(f, g)
    IN  Dict(<<>>, [e.v EXCEPT ![key] = value])

Drop(m, keys) == [k \in DOMAIN m \ keys |-> m[k]]

Tables(g) == [i \in 1..Len(SortedExpected) |-> _make_manifest_entry(SortedExpected[i], g)]

Replace(tables, f, entry) ==
    [i \in 1..Len(tables) |-> IF tables[i].v["file"] = f THEN entry ELSE tables[i]]

Omit(tables, F) == SelectSeq(tables, LAMBDA t : t.v["file"] \notin F)

Manifest(tables) ==
    [ spec_version |-> "1.0.0", dataset_id |-> "jp_idwr_db",
      data_version |-> "test", release_tag |-> "v-test",
      published_at |-> "2025-01-01T00:00:00Z", license |-> "GPL-3.0-or-later",
      homepage |-> "https://example.invalid",
      assets_base_url |-> "https://example.invalid/download/v-test",
      tables |-> tables ]

Assets(g) == [f \in EXPECTED_DATASETS |-> OK(Content(f, g))]

_make_release_assets(manifest, assets) ==
    (MANIFEST_NAME :> OK(Json(manifest))) @@ assets

GoodCurrent(g) == _make_release_assets(Manifest(List(Tables(g))), Assets(g))

FileInfo(f, g) ==
    [ sha256 |-> _sha256(Content(f, g)),
      size_bytes |-> Number(st_size(Content(f, g)), 0) ]

Files(names, g) == Dict(sorted(names), [f \in names |-> FileInfo(f, g)])

Members(names, g) == [f \in names |-> Content(f, g)]

LegacyManifest(archive_name, archive, files) ==
    [archive |-> archive_name, archive_sha256 |-> _sha256(archive), files |-> files]

_make_legacy_release_assets(manifest, archive) ==
    (LEGACY_MANIFEST_NAME :> OK(Json(manifest))) @@ (manifest["archive"] :> OK(archive))

Legacy(files, members) ==
    _make_legacy_release_assets(LegacyManifest(ARCHIVE_NAME, Zip(members), files),
                                Zip(members))

GoodLegacy(g) == Legacy(Files(EXPECTED_DATASETS, g), Members(EXPECTED_DATASETS, g))

(* The release a call meets, by scenario: kind names what is wrong with    *)
(* it, f the dataset the fault is about (if any) and g the generation of   *)
(* its contents.                                                           *)
Release(kind, f, g) ==
    LET E == EXPECTED_DATASETS
        T == Tables(g)
        M == Members(E, g)
        cur == GoodCurrent(g)
        leg == GoodLegacy(g)
        rel(tables) == _make_release_assets(Manifest(List(tables)), Assets(g))
    IN  CASE kind = "current" -> cur
          [] kind = "legacy" -> leg
          (* manifest fetch and decoding *)
          [] kind = "manifest_500" -> (MANIFEST_NAME :> Failed(500)) @@ cur
          [] kind = "manifest_unreachable" -> (MANIFEST_NAME :> Failed(0)) @@ cur
          [] kind = "manifest_cut" ->
                (MANIFEST_NAME :> Response(200, cur[MANIFEST_NAME].body, TRUE)) @@ cur
          [] kind = "manifest_not_json" -> (MANIFEST_NAME :> OK(Text("<html>"))) @@ cur
          [] kind = "nothing_published" -> [n \in {} |-> Failed(404)]
          [] kind = "legacy_500" -> (LEGACY_MANIFEST_NAME :> Failed(500)) @@ leg
          [] kind = "manifest_500_legacy_there" -> (MANIFEST_NAME :> Failed(500)) @@ leg
          (* malformed manifests *)
          [] kind = "keys_missing" ->
                _make_release_assets(Drop(Manifest(List(T)), {"license", "homepage"}),
                                     Assets(g))
          [] kind = "tables_empty" -> _make_release_assets(Manifest(List(<<>>)), Assets(g))
          [] kind = "tables_not_list" ->
                _make_release_assets(Manifest(Scalar("none")), Assets(g))
          [] kind = "table_not_object" -> rel(<<Scalar("bullet.parquet")>> \o T)
          [] kind = "table_keys_missing" ->
                rel(T \o <<Dict(<<>>, Drop(T[1].v, {"sha256", "format"}))>>)
          [] kind = "legacy_keys_missing" ->
                (LEGACY_MANIFEST_NAME :>
                    OK(Json(Drop(leg[LEGACY_MANIFEST_NAME].body.value,
                                 {"files", "archive"})))) @@ leg
          [] kind = "files_empty" -> Legacy(Dict(<<>>, [n \in {} |-> FileInfo(n, g)]), M)
          [] kind = "files_not_object" -> Legacy(List(<<>>), M)
          (* current schema, one table entry or asset wrong *)
          [] kind = "extra_entry" -> rel(T \o <<_make_manifest_entry("extra.parquet", g)>>)
          [] kind = "entry_twice" ->
                rel(<<EntryWith(f, g, "sha256", _sha256(Tampered(f)))>> \o T)
          [] kind = "entry_absent" -> rel(Omit(T, {f}))
          [] kind = "entries_absent" -> rel(Omit(T, {f, "place_prefecture.parquet"}))
          [] kind = "entry_csv" -> rel(Replace(T, f, EntryWith(f, g, "format", "csv")))
          [] kind = "entry_sha" ->
                rel(Replace(T, f, EntryWith(f, g, "sha256", _sha256(Tampered(f)))))
          [] kind = "entry_size" ->
                rel(Replace(T, f, EntryWith(f, g, "size_bytes",
                                            Number(st_size(Content(f, g)) + 1, 0))))
          [] kind = "entry_size_fraction" ->
                rel(Replace(T, f, EntryWith(f, g, "size_bytes",
                                            Number(st_size(Content(f, g)), 5))))
          [] kind = "asset_tampered" -> (f :> OK(Tampered(f))) @@ cur
          [] kind = "asset_404" -> (f :> Failed(404)) @@ cur
          [] kind = "asset_cut" -> (f :> Response(200, Content(f, g), TRUE)) @@ cur
          (* legacy schema, archive wrong *)
          [] kind = "archive_404" -> (ARCHIVE_NAME :> Failed(404)) @@ leg
          [] kind = "archive_cut" -> (ARCHIVE_NAME :> Response(200, Zip(M), TRUE)) @@ leg
          [] kind = "archive_sha" -> (ARCHIVE_NAME :> OK(Zip(Members(E, g + 1)))) @@ leg
          [] kind = "archive_not_zip" ->
                _make_legacy_release_assets(
                    LegacyManifest(ARCHIVE_NAME, Text("not a zip"), Files(E, g)),
                    Text("not a zip"))
          [] kind = "archive_named_marker_sha" ->
                _make_legacy_release_assets(
                    [LegacyManifest(MARKER_NAME, Zip(M), Files(E, g))
                       EXCEPT !["archive_sha256"] = _sha256(Zip(Members(E, g + 1)))],
                    Zip(M))
          [] kind = "archive_named_legacy_manifest" ->
                _make_legacy_release_assets(
                    LegacyManifest(LEGACY_MANIFEST_NAME, Zip(M), Files(E, g)), Zip(M))
          [] kind = "archive_in_other_version" ->
                _make_legacy_release_assets(
                    LegacyManifest(ESCAPING_NAME, Zip(M), Files(E, g)), Zip(M))
          [] kind = "member_marker" -> Legacy(Files(E, g), (MARKER_NAME :> Text("")) @@ M)
          [] kind = "member_marker_file_missing" ->
                Legacy(Files(E \cup {"extra.parquet"}, g), (MARKER_NAME :> Text("")) @@ M)
          [] kind = "member_extra" ->
                Legacy(Files(E \cup {"extra.parquet"}, g),
                       Members(E \cup {"extra.parquet"}, g))
          (* legacy schema, one files entry or member wrong *)
          [] kind = "files_omits" -> Legacy(Files(E \ {f}, g), M)
          [] kind = "archive_omits" -> Legacy(Files(E, g), Members(E \ {f}, g))
          [] kind = "both_omit" -> Legacy(Files(E \ {f}, g), Members(E \ {f}, g))
          [] kind = "both_omit_member_marker" ->
                Legacy(Files(E \ {f}, g), (MARKER_NAME :> Text("")) @@ Members(E \ {f}, g))
          [] kind = "member_tampered" -> Legacy(Files(E, g), (f :> Tampered(f)) @@ M)
          [] kind = "member_tampered_unlisted" ->
                Legacy(Files(E \ {f}, g), (f :> Tampered(f)) @@ M)
          [] kind = "info_size" ->
                Legacy(Dict(sorted(E),
                            (f :> [FileInfo(f, g) EXCEPT
                                     !.size_bytes =
                                         Number(st_size(Content(f, g)) + 1, 0)])
                            @@ Files(E, g).v), M)
          [] kind = "info_no_sha" ->
                Legacy(Dict(sorted(E), (f :> Drop(FileInfo(f, g), {"sha256"}))
                                         @@ Files(E, g).v), M)

GlobalFaults ==
    { "manifest_500", "manifest_unreachable", "manifest_cut", "manifest_not_json",
      "nothing_published", "legacy_500", "manifest_500_legacy_there",
      "keys_missing", "tables_empty", "tables_not_list", "table_not_object",
      "table_keys_missing", "legacy_keys_missing", "files_empty",
      "files_not_object", "extra_entry", "archive_404", "archive_cut",
      "archive_sha", "archive_not_zip", "archive_named_marker_sha",
      "archive_named_legacy_manifest",
      "member_marker", "member_marker_file_missing", "member_extra" }

FileFaults ==
    { "entry_absent", "entry_csv", "entry_sha", "entry_size",
      "entry_size_fraction", "asset_tampered",
      "asset_404", "asset_cut", "files_omits", "archive_omits", "both_omit",
      "both_omit_member_marker",
      "member_tampered", "member_tampered_unlisted", "info_size", "info_no_sha" }

(* The dataset the per-file faults are about (the fourth of the download   *)
(* order), and a few faults about the first and the last one.              *)
FaultTarget == "sentinel.parquet"

NoTarget == ""

Scenarios ==
    { <<kind, NoTarget, g>> : kind \in {"current", "legacy"}, g \in 1..MaxGen }
      \cup { <<kind, NoTarget, 1>> : kind \in GlobalFaults }
      \cup { <<kind, FaultTarget, 1>> : kind \in FileFaults }
      \cup { <<"entry_sha", "bullet.parquet", 1>>,
             <<"entry_twice", "unified.parquet", 1>>,
             <<"entries_absent", "unified.parquet", 1>> }

(* The releases met by the calls under varying environments and versions. *)
CallScenarios ==
    { <<"current", NoTarget, 1>>, <<"legacy", NoTarget, 1>>,
      <<"entry_sha", FaultTarget, 1>>, <<"archive_sha", NoTarget, 1>>,
      <<"archive_named_legacy_manifest", NoTarget, 1>>,
      <<"archive_in_other_version", NoTarget, 1>> }

(* The releases, tabulated once.                                           *)
ReleaseTable ==
    [s \in Scenarios \cup CallScenarios |-> Release(s[1], s[2], s[3])]
        @@ [s \in {} |-> GoodCurrent(1)]

ReleaseOf(scenario) == ReleaseTable[scenario]

----------------------------------------------------------------------------
(* The state machine: a cache that starts empty and a sequence of          *)
(* ensure_data calls, each against whatever the remote offers then.        *)

VersionArgs == { <<"v1">> }

Env0 ==
    [ JPINFECT_CACHE_DIR |-> <<"/cache">>, JPINFECT_DATA_VERSION |-> <<>>,
      JPINFECT_DATA_BASE_URL |-> <<>>, installed |-> TRUE,
      package_version |-> <<"0.3.1">> ]

NoFiles == [d \in {} |-> EmptyDir]

NoScenario == <<"none", NoTarget, 0>>

(* No call in progress step by step (see the interleaved specification).   *)
NoProcs == [epoch |-> 0, p |-> <<>>]

(* The record of the last call: its arguments, its outcome, and what it    *)
(* came after (the outcome of the call before it) and found (the names in  *)
(* its directory when it started).                                         *)
NoCall ==
    [ version |-> <<>>, force |-> FALSE, scenario |-> NoScenario, kind |-> "none",
      path |-> <<>>, err |-> NoErr, reqs |-> <<>>, stderr |-> <<>>,
      shaOk |-> {}, sizeOk |-> {}, wrote |-> {}, loaded |-> <<>>, fast |-> FALSE,
      is_legacy |-> FALSE, deleted |-> FALSE,
      after |-> [kind |-> "none", err |-> NoErr], found |-> {} ]

Init ==
    /\ fs = NoFiles
    /\ env = Env0
    /\ last = NoCall
    /\ marked = [d \in {} |-> [shaOk |-> {}, sizeOk |-> {}, is_legacy |-> FALSE]]
    /\ calls = 0
    /\ procs = NoProcs

EnsureData(version, force, scenario) ==
    /\ calls < MaxCalls
    /\ \E o \in {ensure_data(fs, env, version, force, ReleaseOf(scenario))} :
           /\ fs' = o.fs
           /\ last' = [ version |-> version, force |-> force, scenario |-> scenario,
                        kind |-> o.kind, path |-> o.path, err |-> o.err,
                        reqs |-> o.reqs, stderr |-> o.stderr, shaOk |-> o.shaOk,
                        sizeOk |-> o.sizeOk, wrote |-> o.wrote, loaded |-> o.loaded,
                        fast |-> o.fast,
                        is_legacy |-> o.is_legacy, deleted |-> o.deleted,
                        after |-> [kind |-> last.kind, err |-> last.err],
                        found |-> IF o.path \in DOMAIN fs THEN DOMAIN fs[o.path]
                                  ELSE {} ]
           /\ marked' = IF o.kind = "return" /\ ~o.fast
                           THEN (o.path :> [ shaOk |-> o.shaOk, sizeOk |-> o.sizeOk,
                                             is_legacy |-> o.is_legacy ]) @@ marked
                           ELSE marked
    /\ calls' = calls + 1
    /\ UNCHANGED <<env, procs>>

Next == \E version \in VersionArgs, force \in BOOLEAN, scenario \in Scenarios :
            EnsureData(version, force, scenario)

Spec == Init /\ [][Next]_vars

----------------------------------------------------------------------------
(* Vocabulary of the properties.  They read the file system and the record *)
(* of the last call directly, not through the operators of the call.       *)

MarkerAt(d) == d \in DOMAIN fs /\ MARKER_NAME \in DOMAIN fs[d]

AllExpectedAt(d) == d \in DOMAIN fs /\ EXPECTED_DATASETS \subseteq DOMAIN fs[d]

Called == last.kind # "none"

Synced == Called /\ ~last.fast

Offered == ReleaseOf(last.scenario)

Served(name) == IF name \in DOMAIN Offered THEN Offered[name] ELSE Failed(404)

Delivered(name) ==
    Served(name).status = 200 /\ ~Served(name).cut

RequestedFiles == [i \in 1..Len(last.reqs) |-> last.reqs[i].file]

Ascending(names) ==
    \A i, j \in 1..Len(names) : i < j => Position(names[i]) < Position(names[j])

Population(f, d) == [n \in EXPECTED_DATASETS \cap DOMAIN f[d] |-> f[d][n]]

(* The manifest the last call synchronised against.                        *)
ManifestInEffect ==
    Served(IF last.is_legacy THEN LEGACY_MANIFEST_NAME ELSE MANIFEST_NAME).body.value

WellFormedCurrent(m) ==
    /\ { "spec_version", "dataset_id", "data_version", "release_tag",
         "published_at", "license", "homepage", "assets_base_url", "tables" }
         \subseteq DOMAIN m
    /\ m["tables"].t = "list"
    /\ Len(m["tables"].v) > 0
    /\ \A i \in 1..Len(m["tables"].v) :
         /\ m["tables"].v[i].t = "dict"
         /\ {"name", "file", "format", "size_bytes", "sha256"}
              \subseteq DOMAIN m["tables"].v[i].v

ListedParquet(m) ==
    { m["tables"].v[i].v["file"] :
        i \in { j \in 1..Len(m["tables"].v) : m["tables"].v[j].v["format"] = "parquet" } }

(* The manifest in effect declares this digest for dataset f.              *)
Declares(f, digest) ==
    LET m == ManifestInEffect
    IN  IF last.is_legacy
           THEN /\ f \in DOMAIN m["files"].v
                /\ "sha256" \in DOMAIN m["files"].v[f]
                /\ m["files"].v[f]["sha256"] = digest
        ELSE \E i \in 1..Len(m["tables"].v) :
                /\ m["tables"].v[i].v["file"] = f
                /\ m["tables"].v[i].v["format"] = "parquet"
                /\ m["tables"].v[i].v["sha256"] = digest

----------------------------------------------------------------------------
(* C1 -- marker invariant.  In every state between calls, a directory that *)
(* holds the completion marker holds all six expected datasets, and each   *)
(* of them passed verification in the sync that last wrote the marker.     *)
(* Stated in the reading most favourable to the code: only the "only if"   *)
(* half, and with the legacy sync's digest check counted as verification   *)
(* although it checks no size.                                             *)
C1_MarkerImpliesVerified ==
    \A d \in DOMAIN fs :
        MarkerAt(d) =>
            /\ AllExpectedAt(d)
            /\ d \in DOMAIN marked
            /\ EXPECTED_DATASETS \subseteq marked[d].shaOk
            /\ ~marked[d].is_legacy => EXPECTED_DATASETS \subseteq marked[d].sizeOk

(* C2 -- a call that returns normally returns a directory that holds the   *)
(* marker and all six expected datasets.                                   *)
C2_ReturnedDirIsComplete ==
    (Called /\ last.kind = "return") =>
        MarkerAt(last.path) /\ AllExpectedAt(last.path)

(* C3 -- fast path.  A call without force on a directory whose marker      *)
(* exists returns that directory, sends no request and leaves the file     *)
(* system exactly as it was.                                               *)
C3_FastPathTouchesNothing ==
    [][ ( /\ calls' = calls + 1
          /\ ~last'.force
          /\ MarkerAt(last'.path) )
        => ( /\ last'.kind = "return"
             /\ last'.fast
             /\ last'.reqs = <<>>
             /\ last'.wrote = {}
             /\ fs' = fs ) ]_vars

C3_Witness ==
    Called /\ last.fast /\ ~last.force /\ last.kind = "return" /\ MarkerAt(last.path)

(* C4 -- idempotence.  When a call without force has returned normally,    *)
(* the next call without force for the same version sends no request and   *)
(* returns the same path.                                                  *)
C4_SecondCallIsOffline ==
    [][ ( /\ calls' = calls + 1
          /\ last.kind = "return" /\ ~last.force
          /\ ~last'.force /\ last'.version = last.version )
        => ( /\ last'.kind = "return"
             /\ last'.reqs = <<>>
             /\ last'.path = last.path ) ]_vars

C4_Witness ==
    /\ calls = 2 /\ last.kind = "return" /\ last.fast /\ last.reqs = <<>>
    /\ last.path \in DOMAIN marked /\ AllExpectedAt(last.path)

(* C5 -- forced refresh.  After a forced call that returns normally, every *)
(* expected dataset in the directory has the digest that the manifest in   *)
(* effect for that call declares for it.                                   *)
C5_ForcedRefreshMatchesManifest ==
    (Called /\ last.force /\ last.kind = "return") =>
        \A f \in EXPECTED_DATASETS :
            /\ f \in DOMAIN fs[last.path]
            /\ Declares(f, <<"sha256", fs[last.path][f]>>)

(* C6 -- a checksum mismatch halts before the marker is written.  A        *)
(* dataset downloaded under the current schema whose digest differs from   *)
(* its manifest entry makes the call raise "Checksum mismatch" for it; a   *)
(* legacy archive whose digest differs from archive_sha256 makes the call  *)
(* raise "Archive checksum mismatch"; in both cases the marker is absent   *)
(* afterwards.                                                             *)
C6_ChecksumMismatchLeavesNoMarker ==
    Synced =>
        /\ \A f \in EXPECTED_DATASETS :
             ( /\ ~last.is_legacy
               /\ f \in last.wrote
               /\ fs[last.path][f].kind # "partial"
               /\ ~Declares(f, <<"sha256", fs[last.path][f]>>) )
             => ( /\ last.kind = "raise"
                  /\ last.err.msg = "Checksum mismatch"
                  /\ last.err.names = <<f>>
                  /\ ~MarkerAt(last.path) )
        /\ ( /\ last.is_legacy
             /\ Delivered(LEGACY_MANIFEST_NAME)
             /\ "archive" \in DOMAIN ManifestInEffect
             /\ "archive_sha256" \in DOMAIN ManifestInEffect
             /\ ManifestInEffect["archive"] \in last.wrote
             /\ Delivered(ManifestInEffect["archive"])
             /\ <<"sha256", Served(ManifestInEffect["archive"]).body>>
                  # ManifestInEffect["archive_sha256"] )
           => ( /\ last.kind = "raise"
                /\ last.err.msg = "Archive checksum mismatch"
                /\ ~MarkerAt(last.path) )

(* C7 -- failure semantics.  When a call raises, the marker is absent from *)
(* its directory.                                                          *)
C7_ErrorLeavesNoMarker ==
    (Called /\ last.kind = "raise") => ~MarkerAt(last.path)

(* C8 -- missing manifest entry.  When the current-schema manifest is well *)
(* formed and some expected dataset has no parquet entry in tables, the    *)
(* call raises "Missing required parquet datasets in manifest" naming      *)
(* exactly those datasets in ascending order; the manifest is the only     *)
(* request sent and the only file written, and the marker is absent.       *)
C8_MissingEntryNamedBeforeDownload ==
    ( /\ Synced
      /\ Delivered(MANIFEST_NAME)
      /\ Served(MANIFEST_NAME).body.kind = "json"
      /\ WellFormedCurrent(Served(MANIFEST_NAME).body.value)
      /\ EXPECTED_DATASETS \ ListedParquet(Served(MANIFEST_NAME).body.value) # {} )
    => ( /\ last.kind = "raise"
         /\ last.err.type = "ValueError"
         /\ last.err.msg = "Missing required parquet datasets in manifest"
         /\ Range(last.err.names)
              = EXPECTED_DATASETS \ ListedParquet(Served(MANIFEST_NAME).body.value)
         /\ Len(last.err.names) = Cardinality(Range(last.err.names))
         /\ Ascending(last.err.names)
         /\ RequestedFiles = <<MANIFEST_NAME>>
         /\ last.wrote = {MANIFEST_NAME}
         /\ ~MarkerAt(last.path) )

C8_Witness ==
    /\ Synced
    /\ last.err.msg = "Missing required parquet datasets in manifest"
    /\ Len(last.err.names) = 2
    /\ ListedParquet(Served(MANIFEST_NAME).body.value) # {}

(* C9 -- manifest fetcher.  The legacy manifest is requested exactly when  *)
(* the current manifest answered 404, as the second request, and the sync  *)
(* is then the legacy one; any other failure of the current request ends   *)
(* the call with that failure after that single request, and a failure of  *)
(* the legacy request ends the call with that failure.  (A later request   *)
(* for the legacy manifest's URL is not the fetcher's: it is the archive   *)
(* download of a legacy manifest that names that file as its archive.)     *)
FetchFailure(resp) ==
    IF resp.status = 0 THEN Err("ConnectError", "", <<>>, 0)
    ELSE IF resp.status >= 400 THEN Err("HTTPStatusError", "", <<>>, resp.status)
    ELSE Err("ReadError", "", <<>>, 0)

C9_LegacyOnlyAfter404 ==
    Synced =>
        LET cur == Served(MANIFEST_NAME)
            leg == Served(LEGACY_MANIFEST_NAME)
            legacyAt == { i \in 1..Len(last.reqs) : last.reqs[i].file = LEGACY_MANIFEST_NAME }
        IN  /\ last.reqs[1].file = MANIFEST_NAME
            /\ legacyAt \cap {1, 2} = (IF cur.status = 404 THEN {2} ELSE {})
            /\ \A i \in legacyAt \ {2} :
                  /\ last.is_legacy /\ i = 3
                  /\ ManifestInEffect["archive"] = LEGACY_MANIFEST_NAME
            /\ (cur.status # 404 /\ ~Delivered(MANIFEST_NAME)) =>
                  /\ last.kind = "raise"
                  /\ last.err = FetchFailure(cur)
                  /\ Len(last.reqs) = 1
            /\ (cur.status = 404 /\ ~Delivered(LEGACY_MANIFEST_NAME)) =>
                  /\ last.kind = "raise"
                  /\ last.err = FetchFailure(leg)
                  /\ Len(last.reqs) = 2
            /\ (cur.status = 404 /\ Delivered(LEGACY_MANIFEST_NAME)) => last.is_legacy
            /\ Delivered(MANIFEST_NAME) => ~last.is_legacy

C9_Witness ==
    /\ Synced /\ last.is_legacy /\ last.kind = "return"
    /\ RequestedFiles = <<MANIFEST_NAME, LEGACY_MANIFEST_NAME, ARCHIVE_NAME>>

(* C10 -- legacy fallback.  From every reachable cache, forced or not, a   *)
(* call against a legacy release (current manifest 404, archive and files  *)
(* map of generation g) and a call against the current-schema release of   *)
(* the same generation both return normally and leave the same expected    *)
(* datasets with the same contents, and the marker.                        *)
C10_LegacySameAsCurrent ==
    \A version \in VersionArgs, force \in BOOLEAN, g \in 1..MaxGen :
        LET cur == ensure_data(fs, env, version, force, GoodCurrent(g))
            leg == ensure_data(fs, env, version, force, GoodLegacy(g))
        IN  /\ cur.kind = "return" /\ leg.kind = "return"
            /\ cur.path = leg.path
            /\ leg.fast = cur.fast
            /\ ~leg.fast => leg.is_legacy /\ ~cur.is_legacy
            /\ MARKER_NAME \in DOMAIN cur.fs[cur.path]
            /\ MARKER_NAME \in DOMAIN leg.fs[leg.path]
            /\ Population(leg.fs, leg.path) = Population(cur.fs, cur.path)
            /\ ~leg.fast => DOMAIN Population(leg.fs, leg.path) = EXPECTED_DATASETS

C10_Witness ==
    /\ calls = 2 /\ Synced /\ last.is_legacy /\ last.kind = "return" /\ ~last.force
    /\ last.scenario = <<"legacy", NoTarget, 2>>
    /\ Population(fs, last.path) = [f \in EXPECTED_DATASETS |-> Content(f, 2)]

----------------------------------------------------------------------------
(* A release whose current-schema manifest is served whole, is well formed *)
(* and lists every expected dataset as parquet, every such entry carrying  *)
(* the digest and the size of the asset the release serves under that name.*)
Whole(r, name) == name \in DOMAIN r /\ r[name].status = 200 /\ ~r[name].cut

ListsAllCorrectly(r) ==
    /\ Whole(r, MANIFEST_NAME)
    /\ r[MANIFEST_NAME].body.kind = "json"
    /\ WellFormedCurrent(r[MANIFEST_NAME].body.value)
    /\ \A f \in EXPECTED_DATASETS :
          LET tables == r[MANIFEST_NAME].body.value["tables"].v
              mine == { i \in 1..Len(tables) :
                          tables[i].v["file"] = f /\ tables[i].v["format"] = "parquet" }
          IN  /\ Whole(r, f)
              /\ r[f].body.kind = "data"
              /\ mine # {}
              /\ \A i \in mine :
                    /\ tables[i].v["sha256"] = <<"sha256", r[f].body>>
                    /\ tables[i].v["size_bytes"] = Number(Len(r[f].body.bytes), 0)

(* C11 -- first sync and forced refresh against a correct current-schema   *)
(* release.  A call that is forced, or that starts on an empty cache,      *)
(* against a release whose manifest lists all six expected parquet files   *)
(* with correct digests and sizes returns <cache_root>/data/<v>; on return *)
(* that directory exists and holds every expected dataset and the marker.  *)
C11_CorrectReleaseSyncs ==
    [][ ( /\ calls' = calls + 1
          /\ last'.force \/ fs = NoFiles
          /\ ListsAllCorrectly(ReleaseOf(last'.scenario)) )
        => ( /\ last'.kind = "return"
             /\ last'.path = <<env.JPINFECT_CACHE_DIR, "data", last'.version>>
             /\ last'.path \in DOMAIN fs'
             /\ EXPECTED_DATASETS \subseteq DOMAIN fs'[last'.path]
             /\ MARKER_NAME \in DOMAIN fs'[last'.path] ) ]_vars

C11_Witness ==
    /\ calls = 2 /\ Synced /\ last.force /\ last.deleted /\ last.kind = "return"
    /\ ListsAllCorrectly(Offered)
    /\ last.scenario[1] = "extra_entry"
    /\ MarkerAt(last.path) /\ AllExpectedAt(last.path)

(* C12 -- what a successful call leaves.  After a call that returned       *)
(* normally, its directory holds the six dataset files and the marker and  *)
(* no other file; in particular no manifest.                               *)
C12_OnlyDatasetsAndMarker ==
    (Called /\ last.kind = "return") =>
        DOMAIN fs[last.path] = EXPECTED_DATASETS \cup {MARKER_NAME}

----------------------------------------------------------------------------
(* The resolution functions on their own: the environment is drawn from    *)
(* Environments, the argument from VersionInputs, and one step applies     *)
(* get_cache_dir, _resolve_data_version and _resolve_base_url to them.     *)
(* A version is a sequence of tokens, a leading "v" being its own token.   *)

VersionInputs == { <<>>, <<"1.2">>, <<"v", "1.2">> }

Environments ==
    [ JPINFECT_CACHE_DIR : { <<>>, <<"/cache">> },
      JPINFECT_DATA_VERSION : { <<>>, <<"2.0">>, <<"v", "2.0">> },
      JPINFECT_DATA_BASE_URL : { <<>>, <<"https://mirror">>,
                                 <<"https://mirror", "/", "/">> },
      installed : BOOLEAN,
      package_version : { <<"0.3.1">>, <<"v", "0.3.1">> } ]

InitResolve ==
    /\ fs = NoFiles
    /\ env \in Environments
    /\ last = NoCall
    /\ marked = [d \in {} |-> [shaOk |-> {}, sizeOk |-> {}, is_legacy |-> FALSE]]
    /\ calls = 0
    /\ procs = NoProcs

Resolve(version) ==
    /\ calls = 0
    /\ last' = [ kind |-> "resolved", version |-> version,
                 resolved |-> _resolve_data_version(env, version),
                 cache_dir |-> get_cache_dir(env),
                 base_url |-> _resolve_base_url(env, _resolve_data_version(env, version)) ]
    /\ calls' = 1
    /\ UNCHANGED <<fs, env, marked, procs>>

NextResolve == \E version \in VersionInputs : Resolve(version)

SpecResolve == InitResolve /\ [][NextResolve]_vars

Resolved == last.kind = "resolved"

(* C13 as stated -- the resolved version is the argument if given, else    *)
(* the environment override if set, else the installed package's version   *)
(* with "v" put in front unless it starts with "v", else "0.0.0" when the  *)
(* package is not installed.                                               *)
C13_ResolutionAsStated ==
    Resolved =>
        last.resolved =
            IF last.version # <<>> THEN last.version
            ELSE IF env.JPINFECT_DATA_VERSION # <<>> THEN env.JPINFECT_DATA_VERSION
            ELSE IF env.installed
               THEN IF env.package_version[1] = "v" THEN env.package_version
                    ELSE <<"v">> \o env.package_version
            ELSE <<"0.0.0">>

(* C13 amended -- as above, but the fallback "0.0.0" is treated like a     *)
(* package version: the resolved version is then "v0.0.0".                 *)
C13_ResolutionPriority ==
    Resolved =>
        last.resolved =
            IF last.version # <<>> THEN last.version
            ELSE IF env.JPINFECT_DATA_VERSION # <<>> THEN env.JPINFECT_DATA_VERSION
            ELSE IF env.installed
               THEN IF env.package_version[1] = "v" THEN env.package_version
                    ELSE <<"v">> \o env.package_version
            ELSE <<"v", "0.0.0">>

C13_Witness ==
    /\ Resolved /\ last.version = <<>> /\ env.JPINFECT_DATA_VERSION = <<>>
    /\ ~env.installed /\ last.resolved = <<"v", "0.0.0">>

(* The tables entry of a current-schema manifest that is in effect for     *)
(* dataset f (the last parquet entry of that file) states this digest and  *)
(* this size.                                                              *)
EntryStates(m, f, digest, size) ==
    LET tables == m["tables"].v
        mine == { i \in 1..Len(tables) :
                    tables[i].v["file"] = f /\ tables[i].v["format"] = "parquet" }
    IN  /\ mine # {}
        /\ \E i \in mine :
              /\ \A j \in mine : j <= i
              /\ tables[i].v["sha256"] = digest
              /\ tables[i].v["size_bytes"] = Number(size, 0)

(* C14 -- recovery by forced refresh.  When a call has raised "Checksum    *)
(* mismatch" under the current schema (a manifest entry's sha256 did not   *)
(* match the asset), its directory holds no marker, and a following forced *)
(* call against a release with a correct manifest returns normally, writes *)
(* the marker and leaves every expected dataset with the digest and size   *)
(* that manifest states for it.                                            *)
C14_ForcedRefreshRecovers ==
    [][ ( /\ calls' = calls + 1
          /\ last.kind = "raise" /\ last.err.msg = "Checksum mismatch"
          /\ ~last.is_legacy
          /\ last'.force /\ last'.version = last.version
          /\ ListsAllCorrectly(ReleaseOf(last'.scenario)) )
        => ( /\ ~MarkerAt(last.path)
             /\ last'.kind = "return"
             /\ MARKER_NAME \in last'.wrote
             /\ MARKER_NAME \in DOMAIN fs'[last'.path]
             /\ \A f \in EXPECTED_DATASETS :
                   /\ f \in DOMAIN fs'[last'.path]
                   /\ fs'[last'.path][f].kind = "data"
                   /\ EntryStates(ReleaseOf(last'.scenario)[MANIFEST_NAME].body.value, f,
                                  <<"sha256", fs'[last'.path][f]>>,
                                  Len(fs'[last'.path][f].bytes)) ) ]_vars

C14_Witness ==
    /\ calls = 2 /\ last.force /\ last.kind = "return" /\ last.deleted
    /\ last.after.kind = "raise" /\ last.after.err.msg = "Checksum mismatch"
    /\ last.after.err.names = <<FaultTarget>>
    /\ "bullet.parquet" \in last.found /\ MARKER_NAME \notin last.found
    /\ last.scenario = <<"current", NoTarget, 1>>
    /\ MarkerAt(last.path) /\ AllExpectedAt(last.path)

(* C15 -- self-healing retry without force.  A call without force that     *)
(* comes after a failed call and finds no marker runs the whole sync       *)
(* again, deleting nothing; when it returns normally, every expected       *)
(* dataset in the directory was written and verified by that call, under   *)
(* either schema.                                                          *)
C15_RetryTrustsNothingLeft ==
    ( /\ Called /\ ~last.force
      /\ last.after.kind = "raise"
      /\ MARKER_NAME \notin last.found
      /\ last.kind = "return" )
    => ( /\ ~last.fast /\ ~last.deleted
         /\ last.found \subseteq DOMAIN fs[last.path]
         /\ last.reqs # <<>>
         /\ \A f \in EXPECTED_DATASETS : f \in last.wrote /\ f \in last.shaOk )

(* The entry of a well-formed current-schema manifest that is in effect    *)
(* for dataset f: the last parquet entry of that file in tables.           *)
EntryInEffect(m, f) ==
    LET tables == m["tables"].v
        mine == { i \in 1..Len(tables) :
                    tables[i].v["file"] = f /\ tables[i].v["format"] = "parquet" }
    IN  tables[CHOOSE i \in mine : \A j \in mine : j <= i].v

(* The bytes of a served body as the file system counts them.              *)
SizeOf(body) == IF body.kind = "data" THEN Len(body.bytes) ELSE 0

(* The requests of the last call that were not answered whole, the 404 of  *)
(* the current manifest (the one failure the code recovers from) apart.    *)
FailedRequests ==
    { i \in 1..Len(last.reqs) : ~Delivered(last.reqs[i].file) }
        \ (IF Served(MANIFEST_NAME).status = 404 THEN {1} ELSE {})

(* A failed request is the last one and its failure is the call's error; a *)
(* dataset downloaded under the current schema that fails verification     *)
(* against its manifest entry (digest, or size against the whole part of   *)
(* size_bytes) is the last request and the call raises for it; so does a   *)
(* legacy archive that does not match archive_sha256.                      *)
FirstFailureEndsCall ==
    LET n == Len(last.reqs)
    IN  /\ FailedRequests \subseteq {n}
        /\ FailedRequests # {} =>
              /\ last.kind = "raise"
              /\ last.err = FetchFailure(Served(last.reqs[n].file))
        /\ \A i \in 1..n :
              LET f == last.reqs[i].file
              IN  ( /\ ~last.is_legacy /\ f \in EXPECTED_DATASETS /\ Delivered(f)
                    /\ \/ EntryInEffect(ManifestInEffect, f)["sha256"]
                            # <<"sha256", Served(f).body>>
                       \/ EntryInEffect(ManifestInEffect, f)["size_bytes"].whole
                            # SizeOf(Served(f).body) )
                  => ( /\ i = n /\ last.kind = "raise"
                       /\ last.err.msg \in {"Checksum mismatch", "Size mismatch"}
                       /\ last.err.names = <<f>> )
        /\ ( /\ last.is_legacy /\ n = 3 /\ Delivered(last.reqs[3].file)
              /\ <<"sha256", Served(last.reqs[3].file).body>>
                   # ManifestInEffect["archive_sha256"] )
            => ( last.kind = "raise" /\ last.err.msg = "Archive checksum mismatch" )

(* C16 as stated -- nothing is recovered silently and nothing is retried:  *)
(* the 404 fallback apart, the first failure of a fetch or verification    *)
(* ends the call with that error and is its last request, and no URL is    *)
(* requested twice in one call.                                            *)
C16_NoRetryNoRepeat ==
    Synced =>
        /\ FirstFailureEndsCall
        /\ \A i, j \in 1..Len(last.reqs) : i < j => last.reqs[i] # last.reqs[j]

(* C16 amended -- as above, but a URL is requested a second time when a    *)
(* legacy manifest names a manifest file as its archive: the second        *)
(* request is the archive download, the last request of the call.          *)
C16_NoRetry ==
    Synced =>
        /\ FirstFailureEndsCall
        /\ \A i, j \in 1..Len(last.reqs) :
              (i < j /\ last.reqs[i] = last.reqs[j]) =>
                  /\ last.is_legacy /\ j = 3 /\ Len(last.reqs) = 3
                  /\ last.reqs[j].file \in {MANIFEST_NAME, LEGACY_MANIFEST_NAME}
                  /\ ManifestInEffect["archive"] = last.reqs[j].file

C16_Witness ==
    /\ Synced /\ last.kind = "raise" /\ last.err.type = "HTTPStatusError"
    /\ last.err.status = 404 /\ ~last.is_legacy
    /\ Len(last.reqs) = 5 /\ last.reqs[5].file = FaultTarget
    /\ FailedRequests = {5}

----------------------------------------------------------------------------
(* Interleaved calls.  NProcs processes each run ensure_data("v1") against *)
(* the same correct current-schema release; a step is one file-system      *)
(* operation of the code (rmtree with the mkdir after it, and the download *)
(* of the manifest, are taken as one step each).  Nothing in the code      *)
(* locks the directory.  procs.epoch counts the rmtree calls: a file       *)
(* opened before an rmtree is unlinked by it, and what is then written     *)
(* through the open handle appears under no name.                          *)

NProcs == 2

Procs == 1..NProcs

SharedDir == <<get_cache_dir(Env0), "data", _resolve_data_version(Env0, <<"v1">>)>>

SharedRelease == GoodCurrent(1)

Idle == [pc |-> "idle", force |-> FALSE, i |-> 0, epoch |-> 0, complete |-> FALSE]

(* Every expected dataset is in the directory, whole.                      *)
AllWhole(f, d) ==
    /\ d \in DOMAIN f
    /\ \A n \in EXPECTED_DATASETS : n \in DOMAIN f[d] /\ f[d][n].kind = "data"

Goto(p, rec) == procs' = [procs EXCEPT !.p[p] = rec]

InitConcurrent ==
    /\ fs = NoFiles
    /\ env = Env0
    /\ last = NoCall
    /\ marked = [d \in {} |-> [shaOk |-> {}, sizeOk |-> {}, is_legacy |-> FALSE]]
    /\ calls = 0
    /\ procs = [epoch |-> 0, p |-> [q \in Procs |-> Idle]]

(* Lines 215-216: the marker test and the fast return.                     *)
Begin(p, force) ==
    /\ procs.p[p].pc = "idle"
    /\ IF cache_ready(fs, SharedDir, force)
          THEN Goto(p, [procs.p[p] EXCEPT !.pc = "returned", !.force = force,
                                          !.complete = AllWhole(fs, SharedDir)])
          ELSE Goto(p, [procs.p[p] EXCEPT !.pc = "prepare", !.force = force])
    /\ UNCHANGED <<fs, env, last, marked, calls>>

(* Lines 218-220: rmtree when forced and the directory exists, then mkdir. *)
Prepare(p) ==
    /\ procs.p[p].pc = "prepare"
    /\ LET deleted == procs.p[p].force /\ SharedDir \in DOMAIN fs
       IN  /\ fs' = mkdir(IF deleted THEN rmtree(fs, SharedDir) ELSE fs, SharedDir)
           /\ procs' = [procs EXCEPT !.epoch = IF deleted THEN @ + 1 ELSE @,
                                     !.p[p].pc = "manifest"]
    /\ UNCHANGED <<env, last, marked, calls>>

(* Line 232: the manifest is downloaded into the directory.                *)
FetchManifest(p) ==
    /\ procs.p[p].pc = "manifest"
    /\ fs' = write(mkdir(fs, SharedDir), SharedDir, MANIFEST_NAME,
                   SharedRelease[MANIFEST_NAME].body)
    /\ Goto(p, [procs.p[p] EXCEPT !.pc = "load"])
    /\ UNCHANGED <<env, last, marked, calls>>

(* Lines 233 and 186-194: the manifest file is read back and checked.      *)
Load(p) ==
    /\ procs.p[p].pc = "load"
    /\ IF ~exists(fs, SharedDir, MANIFEST_NAME)
          THEN Goto(p, [procs.p[p] EXCEPT !.pc = "raised"])
          ELSE Goto(p, [procs.p[p] EXCEPT !.pc = "open", !.i = 1])
    /\ UNCHANGED <<fs, env, last, marked, calls>>

(* Lines 76-79: parent mkdir and dest.open("wb"), which truncates.         *)
Open(p) ==
    /\ procs.p[p].pc = "open"
    /\ LET f == SortedExpected[procs.p[p].i]
       IN  fs' = write(mkdir(fs, SharedDir), SharedDir, f,
                       Partial(SharedRelease[f].body))
    /\ Goto(p, [procs.p[p] EXCEPT !.pc = "stream", !.epoch = procs.epoch])
    /\ UNCHANGED <<env, last, marked, calls>>

(* Lines 80-81: the body is written through the open handle.               *)
Stream(p) ==
    /\ procs.p[p].pc = "stream"
    /\ LET f == SortedExpected[procs.p[p].i]
       IN  fs' = IF procs.p[p].epoch = procs.epoch /\ exists(fs, SharedDir, f)
                    THEN write(fs, SharedDir, f, SharedRelease[f].body)
                    ELSE fs
    /\ Goto(p, [procs.p[p] EXCEPT !.pc = "verify"])
    /\ UNCHANGED <<env, last, marked, calls>>

(* Lines 153-159: the file at the path is read back, digest and size.      *)
Verify(p) ==
    /\ procs.p[p].pc = "verify"
    /\ LET f == SortedExpected[procs.p[p].i]
           entry == parquet_entries(SharedRelease[MANIFEST_NAME].body.value["tables"].v)[f]
       IN  IF ~exists(fs, SharedDir, f)
              THEN Goto(p, [procs.p[p] EXCEPT !.pc = "raised"])
           ELSE IF \/ _sha256(fs[SharedDir][f]) # entry["sha256"]
                   \/ st_size(fs[SharedDir][f]) # int(entry["size_bytes"])
              THEN Goto(p, [procs.p[p] EXCEPT !.pc = "raised"])
           ELSE IF procs.p[p].i < Len(SortedExpected)
              THEN Goto(p, [procs.p[p] EXCEPT !.pc = "open", !.i = @ + 1])
           ELSE Goto(p, [procs.p[p] EXCEPT !.pc = "check"])
    /\ UNCHANGED <<fs, env, last, marked, calls>>

(* Lines 239-241: every expected dataset must exist.                       *)
Check(p) ==
    /\ procs.p[p].pc = "check"
    /\ IF \E n \in EXPECTED_DATASETS : ~exists(fs, SharedDir, n)
          THEN Goto(p, [procs.p[p] EXCEPT !.pc = "raised"])
          ELSE Goto(p, [procs.p[p] EXCEPT !.pc = "mark"])
    /\ UNCHANGED <<fs, env, last, marked, calls>>

(* Lines 243-245: the marker is written and the directory returned.        *)
Mark(p) ==
    /\ procs.p[p].pc = "mark"
    /\ IF SharedDir \notin DOMAIN fs
          THEN /\ fs' = fs
               /\ Goto(p, [procs.p[p] EXCEPT !.pc = "raised"])
          ELSE /\ fs' = write(fs, SharedDir, MARKER_NAME, Text(MARKER_TEXT))
               /\ Goto(p, [procs.p[p] EXCEPT !.pc = "returned",
                                              !.complete = AllWhole(fs, SharedDir)])
    /\ UNCHANGED <<env, last, marked, calls>>

NextConcurrent ==
    \E p \in Procs :
        \/ \E force \in BOOLEAN : Begin(p, force)
        \/ Prepare(p)
        \/ FetchManifest(p)
        \/ Load(p)
        \/ Open(p)
        \/ Stream(p)
        \/ Verify(p)
        \/ Check(p)
        \/ Mark(p)

SpecConcurrent == InitConcurrent /\ [][NextConcurrent]_vars

(* C17 -- no half-synced cache is visible.  Under every interleaving of    *)
(* the calls, a call that returns returns a directory in which every       *)
(* expected dataset is present and whole, and the marker is never present  *)
(* while an expected dataset is missing or partly written.                 *)
C17_NoHalfSyncedVisible ==
    /\ \A p \in DOMAIN procs.p : procs.p[p].pc = "returned" => procs.p[p].complete
    /\ MarkerAt(SharedDir) => AllWhole(fs, SharedDir)

----------------------------------------------------------------------------
(* The rules of the two validators, on a decoded manifest.                 *)
WellFormedLegacy(m) ==
    /\ {"archive", "archive_sha256", "files"} \subseteq DOMAIN m
    /\ m["files"].t = "dict"
    /\ DOMAIN m["files"].v # {}

StructuralMessages ==
    { "Invalid manifest; missing keys",
      "Invalid manifest; 'tables' must be a non-empty list",
      "Invalid manifest; each table entry must be an object",
      "Invalid manifest table entry; missing keys",
      "Invalid legacy manifest; missing keys",
      "Invalid legacy manifest; 'files' must be a non-empty object" }

(* The last call was served, whole and as JSON, a manifest that breaks the *)
(* rules of its schema's validator.                                        *)
ServedMalformed ==
    \/ /\ Delivered(MANIFEST_NAME)
       /\ Served(MANIFEST_NAME).body.kind = "json"
       /\ ~WellFormedCurrent(Served(MANIFEST_NAME).body.value)
    \/ /\ Served(MANIFEST_NAME).status = 404
       /\ Delivered(LEGACY_MANIFEST_NAME)
       /\ Served(LEGACY_MANIFEST_NAME).body.kind = "json"
       /\ ~WellFormedLegacy(Served(LEGACY_MANIFEST_NAME).body.value)

----------------------------------------------------------------------------
(* The validators on their own: a decoded manifest is drawn from a family  *)
(* of well-formed and malformed ones, and one step applies the validator   *)
(* of its schema to it.                                                    *)

MaxTables == 2

EntryShapes ==
    LET e == _make_manifest_entry("bullet.parquet", 1)
    IN  { e,
          EntryWith("bullet.parquet", 1, "format", "csv"),
          Scalar("bullet.parquet"),
          Dict(<<>>, Drop(e.v, {"size_bytes"})),
          Dict(<<>>, Drop(e.v, {"sha256", "name"})) }

TablesValues ==
    { Scalar("none"), Dict(<<>>, [n \in {} |-> 0]) }
      \cup { List(t) : t \in UNION { [1..n -> EntryShapes] : n \in 0..MaxTables } }

CurrentInputs ==
    { Drop(Manifest(tables), dropped) :
        tables \in TablesValues,
        dropped \in SUBSET {"license", "spec_version", "tables"} }

FilesValues ==
    { List(<<>>), Scalar("none"),
      Dict(<<>>, [n \in {} |-> FileInfo(n, 1)]),
      Files({"bullet.parquet", "unified.parquet"}, 1),
      Dict(<<"bullet.parquet", "unified.parquet">>,
           [n \in {"bullet.parquet", "unified.parquet"} |->
               IF n = "unified.parquet" THEN Drop(FileInfo(n, 1), {"sha256"})
               ELSE FileInfo(n, 1)]) }

LegacyInputs ==
    { Drop([archive |-> ARCHIVE_NAME, archive_sha256 |-> _sha256(Zip(Members({}, 1))),
            files |-> files], dropped) :
        files \in FilesValues,
        dropped \in SUBSET {"archive", "archive_sha256", "files"} }

ManifestInput(schema, m) == [kind |-> "input", schema |-> schema, manifest |-> m]

InitValidate ==
    /\ fs = NoFiles
    /\ env = Env0
    /\ last \in { ManifestInput("current", m) : m \in CurrentInputs }
                 \cup { ManifestInput("legacy", m) : m \in LegacyInputs }
    /\ marked = [d \in {} |-> [shaOk |-> {}, sizeOk |-> {}, is_legacy |-> FALSE]]
    /\ calls = 0
    /\ procs = NoProcs

ValidateCurrent ==
    /\ last.kind = "input" /\ last.schema = "current"
    /\ last' = [ kind |-> "validated", schema |-> "current",
                 manifest |-> last.manifest,
                 err |-> _verify_manifest(Ctx(fs), last.manifest).err ]
    /\ UNCHANGED <<fs, env, marked, calls, procs>>

ValidateLegacy ==
    /\ last.kind = "input" /\ last.schema = "legacy"
    /\ last' = [ kind |-> "validated", schema |-> "legacy",
                 manifest |-> last.manifest,
                 err |-> _verify_legacy_manifest(Ctx(fs), last.manifest).err ]
    /\ UNCHANGED <<fs, env, marked, calls, procs>>

NextValidate == ValidateCurrent \/ ValidateLegacy

SpecValidate == InitValidate /\ [][NextValidate]_vars

Validated(schema) == last.kind = "validated" /\ last.schema = schema

(* The missing top-level keys of a current-schema manifest, the entries of *)
(* its tables list that break the entry rule, and an entry's missing keys. *)
TopKeys ==
    { "spec_version", "dataset_id", "data_version", "release_tag",
      "published_at", "license", "homepage", "assets_base_url", "tables" }

EntryKeys == {"name", "file", "format", "size_bytes", "sha256"}

MissingOf(entry) == IF entry.t = "dict" THEN EntryKeys \ DOMAIN entry.v ELSE EntryKeys

BrokenEntries(m) ==
    IF "tables" \in DOMAIN m /\ m["tables"].t = "list"
       THEN { i \in 1..Len(m["tables"].v) : MissingOf(m["tables"].v[i]) # {} }
       ELSE {}

NamesExactly(names, keys) ==
    /\ Range(names) = keys
    /\ Len(names) = Cardinality(keys)
    /\ Ascending(names)

(* C19 as stated -- the current-schema validator accepts a manifest        *)
(* exactly when it is well formed, and otherwise raises a structural error *)
(* that names every missing required key: the missing top-level keys and   *)
(* the missing keys of every table entry.                                  *)
C19_ValidatorNamesEveryKey ==
    Validated("current") =>
        LET m == last.manifest
        IN  /\ (last.err = NoErr) <=> WellFormedCurrent(m)
            /\ last.err # NoErr =>
                  /\ last.err.type = "ValueError"
                  /\ last.err.msg \in StructuralMessages
                  /\ Range(last.err.names) =
                        (TopKeys \ DOMAIN m)
                          \cup UNION { IF m["tables"].v[i].t = "dict"
                                          THEN MissingOf(m["tables"].v[i]) ELSE {} :
                                       i \in BrokenEntries(m) }

(* C19 amended -- the validator accepts exactly the well-formed manifests; *)
(* otherwise it raises for the first rule broken: missing top-level keys   *)
(* (all named, ascending), else tables not a non-empty list, else the      *)
(* first table entry in list order that is not an object or lacks keys     *)
(* (the keys that entry lacks are all named, ascending).                   *)
C19_ValidatorFirstBrokenRule ==
    Validated("current") =>
        LET m == last.manifest
        IN  /\ (last.err = NoErr) <=> WellFormedCurrent(m)
            /\ last.err # NoErr => last.err.type = "ValueError"
            /\ TopKeys \ DOMAIN m # {} =>
                  /\ last.err.msg = "Invalid manifest; missing keys"
                  /\ NamesExactly(last.err.names, TopKeys \ DOMAIN m)
            /\ (TopKeys \subseteq DOMAIN m
                   /\ (m["tables"].t # "list" \/ m["tables"].v = <<>>)) =>
                  /\ last.err.msg = "Invalid manifest; 'tables' must be a non-empty list"
                  /\ last.err.names = <<>>
            /\ \A i \in BrokenEntries(m) :
                  (TopKeys \subseteq DOMAIN m /\ \A j \in BrokenEntries(m) : i <= j) =>
                      IF m["tables"].v[i].t # "dict"
                         THEN /\ last.err.msg =
                                   "Invalid manifest; each table entry must be an object"
                              /\ last.err.names = <<>>
                         ELSE /\ last.err.msg =
                                   "Invalid manifest table entry; missing keys"
                              /\ NamesExactly(last.err.names,
                                              MissingOf(m["tables"].v[i]))

C19_Witness ==
    /\ Validated("current")
    /\ TopKeys \subseteq DOMAIN last.manifest
    /\ Cardinality(BrokenEntries(last.manifest)) = 2
    /\ last.err.msg = "Invalid manifest table entry; missing keys"
    /\ last.err.names = <<"size_bytes">>
    /\ MissingOf(last.manifest["tables"].v[2]) = {"name", "sha256"}

(* C20 -- the legacy validator accepts a manifest exactly when it has the  *)
(* keys archive, archive_sha256 and files, files is a non-empty mapping    *)
(* and every files entry has sha256; otherwise it raises a structural      *)
(* error naming every missing key.                                         *)
C20_LegacyValidatorChecksEntries ==
    Validated("legacy") =>
        LET m == last.manifest
            top == {"archive", "archive_sha256", "files"} \ DOMAIN m
        IN  /\ (last.err = NoErr) <=>
                  /\ WellFormedLegacy(m)
                  /\ \A n \in DOMAIN m["files"].v : "sha256" \in DOMAIN m["files"].v[n]
            /\ last.err # NoErr =>
                  /\ last.err.type = "ValueError"
                  /\ last.err.msg \in StructuralMessages
                  /\ top # {} => NamesExactly(last.err.names, top)

----------------------------------------------------------------------------
(* The last call synchronised under the current schema and got as far as   *)
(* the downloads: its manifest was well formed and listed every expected   *)
(* dataset.                                                                *)
CurrentSyncDownloads ==
    /\ Synced /\ ~last.is_legacy
    /\ Delivered(MANIFEST_NAME)
    /\ Served(MANIFEST_NAME).body.kind = "json"
    /\ WellFormedCurrent(ManifestInEffect)
    /\ EXPECTED_DATASETS \subseteq ListedParquet(ManifestInEffect)

(* C21 -- digest first, then size.  Under the current schema, a dataset    *)
(* that was downloaded whole and whose digest differs from its entry makes *)
(* the call raise "Checksum mismatch" for it, whatever its size; one whose *)
(* digest matches and whose size differs from size_bytes makes the call    *)
(* raise "Size mismatch" for it; in both cases no marker is written.       *)
C21_DigestThenSize ==
    CurrentSyncDownloads =>
        \A i \in 1..Len(last.reqs) :
            LET f == last.reqs[i].file
                entry == EntryInEffect(ManifestInEffect, f)
                digestOk == entry["sha256"] = <<"sha256", Served(f).body>>
                sizeOk == entry["size_bytes"] = Number(SizeOf(Served(f).body), 0)
            IN  (f \in EXPECTED_DATASETS /\ Delivered(f)) =>
                  /\ ~digestOk =>
                        /\ last.kind = "raise"
                        /\ last.err.type = "ValueError"
                        /\ last.err.msg = "Checksum mismatch"
                        /\ last.err.names = <<f>>
                        /\ MARKER_NAME \notin last.wrote
                        /\ ~MarkerAt(last.path)
                  /\ (digestOk /\ ~sizeOk) =>
                        /\ last.kind = "raise"
                        /\ last.err.type = "ValueError"
                        /\ last.err.msg = "Size mismatch"
                        /\ last.err.names = <<f>>
                        /\ MARKER_NAME \notin last.wrote
                        /\ ~MarkerAt(last.path)

(* The requests of the last call after its manifest request(s).           *)
Downloads ==
    LET first == IF last.is_legacy THEN 3 ELSE 2
    IN  [i \in 1..(Len(last.reqs) - (first - 1)) |-> last.reqs[i + first - 1].file]

(* The download-and-verify step of dataset f in the last call went wrong:  *)
(* the file was not answered whole, or its digest differs from its entry,  *)
(* or its size differs from the size the step compares with (the whole     *)
(* part of size_bytes).                                                    *)
StepFails(f) ==
    \/ ~Delivered(f)
    \/ EntryInEffect(ManifestInEffect, f)["sha256"] # <<"sha256", Served(f).body>>
    \/ EntryInEffect(ManifestInEffect, f)["size_bytes"].whole # SizeOf(Served(f).body)

(* C22 -- download order.  A current-schema sync requests, after the       *)
(* manifest, only expected datasets, each once, in ascending order of file *)
(* name and without skipping one; a dataset whose download or verification *)
(* fails is the last request of the call.                                  *)
C22_SortedOneAtATime ==
    (Synced /\ ~last.is_legacy) =>
        /\ Range(Downloads) \subseteq EXPECTED_DATASETS
        /\ Ascending(Downloads)
        /\ \A k \in 1..Len(Downloads) :
              /\ \A f \in EXPECTED_DATASETS :
                    Position(f) < Position(Downloads[k])
                        => \E j \in 1..(k - 1) : Downloads[j] = f
              /\ StepFails(Downloads[k]) =>
                    /\ k = Len(Downloads)
                    /\ last.kind = "raise"
        /\ (Downloads # <<>>) => CurrentSyncDownloads

C22_Witness ==
    /\ Synced /\ ~last.is_legacy
    /\ last.kind = "raise"
    /\ Len(Downloads) = 4
    /\ Downloads[4] = FaultTarget
    /\ StepFails(FaultTarget)

----------------------------------------------------------------------------
(* The last call synchronised under the legacy schema and got as far as    *)
(* the archive: its manifest was well formed and the archive it names was  *)
(* answered whole.                                                         *)
LegacySyncArchive ==
    /\ Synced /\ last.is_legacy
    /\ Delivered(LEGACY_MANIFEST_NAME)
    /\ Served(LEGACY_MANIFEST_NAME).body.kind = "json"
    /\ WellFormedLegacy(ManifestInEffect)
    /\ Delivered(ManifestInEffect["archive"])

ArchiveDigestOk ==
    <<"sha256", Served(ManifestInEffect["archive"]).body>>
        = ManifestInEffect["archive_sha256"]

(* C23 -- archive digest before extraction.  When the downloaded archive's *)
(* digest differs from archive_sha256, the legacy sync raises "Archive     *)
(* checksum mismatch" and the call has written nothing but the manifest    *)
(* and the archive file itself.                                            *)
C23_NoExtractionOnMismatch ==
    (LegacySyncArchive /\ ~ArchiveDigestOk) =>
        /\ last.kind = "raise"
        /\ last.err.type = "ValueError"
        /\ last.err.msg = "Archive checksum mismatch"
        /\ last.wrote = {LEGACY_MANIFEST_NAME, ManifestInEffect["archive"]}
        /\ RequestedFiles
             = <<MANIFEST_NAME, LEGACY_MANIFEST_NAME, ManifestInEffect["archive"]>>

C23_Witness ==
    /\ LegacySyncArchive /\ ~ArchiveDigestOk
    /\ last.err.msg = "Archive checksum mismatch"
    /\ Served(ManifestInEffect["archive"]).body.kind = "zip"
    /\ EXPECTED_DATASETS \subseteq DOMAIN Served(ManifestInEffect["archive"]).body.members
    /\ last.found = {}

(* The last call's legacy sync extracted its archive, and every entry of   *)
(* the manifest's files map is a {sha256, size_bytes} pair.                *)
LegacyExtracted ==
    /\ LegacySyncArchive /\ ArchiveDigestOk
    /\ Served(ManifestInEffect["archive"]).body.kind = "zip"
    /\ \A n \in DOMAIN ManifestInEffect["files"].v :
          {"sha256", "size_bytes"} \subseteq DOMAIN ManifestInEffect["files"].v[n]

(* The positions, in the order of the files map, of the entries whose file *)
(* is not in the directory or has another digest than the entry says.      *)
FileAbsent(n) == n \notin DOMAIN fs[last.path]

DigestDiffers(n) ==
    /\ ~FileAbsent(n)
    /\ <<"sha256", fs[last.path][n]>> # ManifestInEffect["files"].v[n]["sha256"]

FailingEntries ==
    { i \in 1..Len(ManifestInEffect["files"].order) :
        \/ FileAbsent(ManifestInEffect["files"].order[i])
        \/ DigestDiffers(ManifestInEffect["files"].order[i]) }

SizeDiffers(n) ==
    /\ n \in DOMAIN ManifestInEffect["files"].v
    /\ ~FileAbsent(n)
    /\ Number(SizeOf(fs[last.path][n]), 0) # ManifestInEffect["files"].v[n]["size_bytes"]

(* C24 -- verification of the extracted files.  After extraction, the      *)
(* first entry of the files map whose file is absent makes the call raise  *)
(* "Missing extracted data file" for it, or whose digest differs "Checksum *)
(* mismatch" for it; size_bytes is not compared: when no entry is absent   *)
(* or differs in digest, the legacy sync raises nothing, whatever the      *)
(* sizes say, and the call succeeds if every expected dataset is there.    *)
C24_LegacyVerifiesDigestOnly ==
    LegacyExtracted =>
        IF FailingEntries = {}
           THEN /\ last.err.msg \notin { "Missing extracted data file", "Checksum mismatch",
                                         "Size mismatch" }
                /\ AllExpectedAt(last.path) => (last.kind = "return" /\ MarkerAt(last.path))
        ELSE LET first == CHOOSE i \in FailingEntries : \A j \in FailingEntries : i <= j
                 n == ManifestInEffect["files"].order[first]
             IN  /\ last.kind = "raise"
                 /\ last.err.type = "ValueError"
                 /\ last.err.names = <<n>>
                 /\ last.err.msg = (IF FileAbsent(n) THEN "Missing extracted data file"
                                    ELSE "Checksum mismatch")

C24_Witness ==
    /\ LegacyExtracted
    /\ FailingEntries = {}
    /\ SizeDiffers(FaultTarget)
    /\ last.kind = "return" /\ MarkerAt(last.path)

(* The synchroniser of the last call returned without error: under the     *)
(* current schema every expected dataset downloaded and verified, under    *)
(* the legacy schema the archive was extracted and no entry of the files   *)
(* map failed.                                                             *)
SyncReturned ==
    \/ /\ CurrentSyncDownloads
       /\ \A f \in EXPECTED_DATASETS : ~StepFails(f)
    \/ /\ LegacyExtracted
       /\ FailingEntries = {}

MissingExpected == EXPECTED_DATASETS \ DOMAIN fs[last.path]

(* C25 -- final presence check.  When the synchroniser returned and some   *)
(* expected dataset is not in the directory, the call raises "Missing      *)
(* required datasets in cache" naming exactly the missing ones in          *)
(* ascending order, and no marker is written: the marker is absent.        *)
C25_MissingNamedNoMarker ==
    (SyncReturned /\ MissingExpected # {}) =>
        /\ last.kind = "raise"
        /\ last.err.type = "ValueError"
        /\ last.err.msg = "Missing required datasets in cache"
        /\ Range(last.err.names) = MissingExpected
        /\ Len(last.err.names) = Cardinality(MissingExpected)
        /\ Ascending(last.err.names)
        /\ MARKER_NAME \notin last.wrote
        /\ ~MarkerAt(last.path)

----------------------------------------------------------------------------
(* C26 -- forced refresh deletes first.  After a forced call, returned or  *)
(* raised, every file of its directory was written by that call; a call    *)
(* that is not forced removes no directory and no file.                    *)
C26_ForcedDeletesFirst ==
    [][ /\ last'.force =>
             /\ ~last'.fast
             /\ last'.deleted = (last'.path \in DOMAIN fs)
             /\ DOMAIN fs'[last'.path] \subseteq last'.wrote
        /\ ~last'.force =>
             /\ ~last'.deleted
             /\ \A d \in DOMAIN fs :
                   d \in DOMAIN fs' /\ DOMAIN fs[d] \subseteq DOMAIN fs'[d] ]_vars

C26_Witness ==
    /\ Called /\ last.force /\ last.deleted
    /\ last.kind = "raise"
    /\ MARKER_NAME \in last.found
    /\ last.found \ DOMAIN fs[last.path] # {}
    /\ DOMAIN fs[last.path] # {}

----------------------------------------------------------------------------
(* Calls under varying environments: the overrides of the base URL and of  *)
(* the version set or not, the version argument given or not, against a    *)
(* few releases.  The environment does not change during a run.            *)

CallEnvironments ==
    [ JPINFECT_CACHE_DIR : { <<"/cache">> },
      JPINFECT_DATA_VERSION : { <<>>, <<"v", "2.0">> },
      JPINFECT_DATA_BASE_URL : { <<>>, <<"https://mirror">>,
                                 <<"https://mirror", "/", "/">>, <<"/">> },
      installed : { TRUE },
      package_version : { <<"0.3.1">> } ]

CallVersions == { <<>>, <<"v1">> }

InitCalls ==
    /\ fs = NoFiles
    /\ env \in CallEnvironments
    /\ last = NoCall
    /\ marked = [d \in {} |-> [shaOk |-> {}, sizeOk |-> {}, is_legacy |-> FALSE]]
    /\ calls = 0
    /\ procs = NoProcs

NextCalls == \E version \in CallVersions, force \in BOOLEAN, scenario \in CallScenarios :
                 EnsureData(version, force, scenario)

SpecCalls == InitCalls /\ [][NextCalls]_vars

(* The override of the base URL without its trailing slashes.              *)
Stripped(url) ==
    LET keep == { n \in 0..Len(url) :
                    /\ \A i \in (n + 1)..Len(url) : url[i] = "/"
                    /\ n > 0 => url[n] # "/" }
    IN  SubSeq(url, 1, CHOOSE n \in keep : TRUE)

(* C27 -- one base for every request.  Each request of a call goes to the  *)
(* same base: the override of the base URL without its trailing slashes    *)
(* when it is set, otherwise the default location followed by "/" and the  *)
(* version the call resolved; the file asked for is the manifest, the      *)
(* legacy manifest, the archive the legacy manifest names or an expected   *)
(* dataset, and the base is never the manifest's assets_base_url.          *)
C27_OneBaseForAll ==
    Synced =>
        \A i \in 1..Len(last.reqs) :
            /\ last.reqs[i].base =
                  IF env.JPINFECT_DATA_BASE_URL # <<>>
                     THEN Stripped(env.JPINFECT_DATA_BASE_URL)
                  ELSE DEFAULT_BASE_URL \o <<"/">> \o last.path[3]
            /\ last.reqs[i].file \in
                  { MANIFEST_NAME, LEGACY_MANIFEST_NAME } \cup EXPECTED_DATASETS
                    \cup (IF last.is_legacy /\ i = 3
                             THEN {ManifestInEffect["archive"]} ELSE {})

C27_Witness ==
    /\ Synced /\ ~last.is_legacy
    /\ env.JPINFECT_DATA_BASE_URL = <<"https://mirror", "/", "/">>
    /\ env.JPINFECT_DATA_VERSION # <<>>
    /\ Len(last.reqs) = 1 + Cardinality(EXPECTED_DATASETS)
    /\ last.reqs[2].base = <<"https://mirror">>

----------------------------------------------------------------------------
(* The manifest file the last call's fetcher obtained: the current one     *)
(* when it was answered whole, the legacy one when the current answered    *)
(* 404 and the legacy one was answered whole, none otherwise.              *)
FetchedManifest ==
    IF Delivered(MANIFEST_NAME) THEN <<MANIFEST_NAME>>
    ELSE IF Served(MANIFEST_NAME).status = 404 /\ Delivered(LEGACY_MANIFEST_NAME)
       THEN <<LEGACY_MANIFEST_NAME>>
    ELSE <<>>

(* C28 -- the manifest is fetched anew.  A call that does not take the     *)
(* fast path requests the current manifest first, whatever its directory   *)
(* holds; what it parses is the manifest file it downloaded itself, with   *)
(* the content the remote served in this call, and when the fetch fails it *)
(* parses nothing and raises.                                              *)
C28_ManifestFetchedAnew ==
    Synced =>
        /\ Len(last.reqs) >= 1
        /\ last.reqs[1].file = MANIFEST_NAME
        /\ IF FetchedManifest = <<>>
              THEN last.loaded = <<>> /\ last.kind = "raise"
           ELSE /\ last.loaded = << [ name |-> FetchedManifest[1],
                                      body |-> Served(FetchedManifest[1]).body ] >>
                /\ last.is_legacy = (FetchedManifest[1] = LEGACY_MANIFEST_NAME)

C28_Witness ==
    /\ Synced /\ last.is_legacy
    /\ MANIFEST_NAME \in last.found
    /\ MARKER_NAME \notin last.found
    /\ ~last.deleted
    /\ last.loaded # <<>>
    /\ last.loaded[1].name = LEGACY_MANIFEST_NAME
    /\ MANIFEST_NAME \in DOMAIN fs[last.path]

(* C29 -- one version, one directory.  A call creates, deletes and writes  *)
(* only under <cache_root>/data/<version>: every other directory is there  *)
(* afterwards with the files it had, and no other directory appears.       *)
C29_OtherVersionsUntouched ==
    [][ /\ last'.path = <<get_cache_dir(env), "data", last'.path[3]>>
        /\ \A d \in DOMAIN fs \ {last'.path} : d \in DOMAIN fs' /\ fs'[d] = fs[d]
        /\ DOMAIN fs' \ DOMAIN fs \subseteq {last'.path} ]_vars

(* C30 -- only the last step writes the marker.  The marker path is        *)
(* written by a call's final step alone: a call that raised, and so never  *)
(* reached that step, has written no file at the marker path, and after a  *)
(* call that returned the marker holds the text that step writes.          *)
C30_MarkerWrittenByLastStepOnly ==
    Synced =>
        /\ last.kind = "raise" => MARKER_NAME \notin last.wrote
        /\ last.kind = "return" =>
              /\ MARKER_NAME \in last.wrote
              /\ fs[last.path][MARKER_NAME] = Text(MARKER_TEXT)

====
